---- MODULE Spec2Model ----
(***************************************************************************)
(* Model of the watcher engine of watcher-benchmark:                       *)
(*   src/src/recursive_file_watcher.rs  (ManualRecursiveWatcher,           *)
(*   NativeRecursiveWatcher, FilteredNativeRecursiveWatcher)               *)
(*   src/src/recursive_file_watcher.rs  (collect_files_recursive)          *)
(*   src/src/main.rs                    (get_filtered_files)               *)
(*                                                                         *)
(* The filesystem and the notify backend are the environment: the          *)
(* filesystem is a map from paths to entry kinds, the backend keeps, per   *)
(* watcher object, the table of installed watches, and it runs the         *)
(* callback registered with a watcher object on every notification.        *)
(***************************************************************************)
EXTENDS Integers, Sequences, FiniteSets, TLC

\* ------------------------------------------------------------------ bounds
MaxFiles == 2       \* files 1..MaxFiles live under the root directory
MaxList == 2        \* longest path list handed to a constructor
MaxOps == 2         \* filesystem mutations and backend reports in one run
MaxLen == 4         \* longest list given to get_filtered_files
MaxRatio == 3       \* largest filter ratio given to get_filtered_files
MaxNodes == 3       \* entries of the tree handed to collect_files_recursive

\* ------------------------------------------------------------------- paths
Root == 0
Files == 1..MaxFiles
Paths == {Root} \cup Files
Dirs == {Root}
Handles == {1, 2}

EntryKinds == {"missing", "file", "dir"}

\* All sequences over S of length at most n.
SeqUpTo(S, n) == UNION {[1..k -> S] : k \in 0..n}

\* The elements of a sequence.
Range(s) == {s[i] : i \in 1..Len(s)}

\* ----------------------------------------------------------- notifications
\* notify::Result<Event>: Ok(Event {paths, ..}) or Err(notify::Error). The
\* watchers read no field of an event but its paths, and none of an error.
OkEvent(paths) == [tag |-> "Ok", paths |-> paths]
ErrNotification == [tag |-> "Err", paths |-> <<>>]

VARIABLES
  fs,                 \* filesystem: path -> entry kind
  now,                \* Instant::now()
  ops,                \* filesystem mutations and backend reports so far
  variant,            \* h -> which constructor built (is building) the handle
  arg_dir,            \* h -> the dir argument
  arg_files,          \* h -> the files_to_watch argument
  pc,                 \* h -> position of the constructor / owner of the handle
  idx,                \* h -> loop index of the per-file registration loop
  start_watch,        \* h -> Instant taken before the registration calls
  watcher,            \* h -> the RecommendedWatcher object is alive
  watches,            \* h -> the backend's watch table of that object
  attempts,           \* h -> the watch() calls of the running (or failed) constructor
  filter_files,       \* h -> field filter_files
  filter_files_clone, \* h -> the set captured by the callback closure
  files_watched,      \* h -> field files_watched
  setup_time,         \* h -> field setup_time
  chan,               \* h -> content of the mpsc channel
  receiver,           \* h -> the Receiver end is alive
  last,               \* h -> outcome of the latest recv_timeout
  gf_files,           \* get_filtered_files: all_files
  gf_ratio,           \* get_filtered_files: filter_ratio
  gf_result,          \* get_filtered_files: the returned list
  gf_state,           \* get_filtered_files: "input", "returned" or "panicked"
  traced,             \* the run keeps the history below
  hist,               \* h -> what has happened to the handle h, oldest first
  tree,               \* collect_files_recursive: the directory tree under dir
  collected,          \* collect_files_recursive: the returned vector (files)
  walk_state,         \* collect_files_recursive: "input" or "returned"
  main_pc,            \* position of the function of main.rs that uses the handle
  collector,          \* run_watch_test: state of the event collection thread
  main_mode,          \* the WatcherMode the function was called with
  watched_count,      \* benchmark_watcher: watched_count
  modify_i,           \* run_watch_test: the files of files_to_modify written so far
  outcomes,           \* the results recv_timeout gives the wait loop, call after call
  polls,              \* the number of recv_timeout calls the wait loop has made
  event_count,        \* benchmark_watcher: event_count
  div_count,          \* the file count an average is computed for
  div_result,         \* what became of the two average computations
  mode_s,             \* WatcherMode::from_str: s, a sequence of characters
  mode_result         \* WatcherMode::from_str: the returned Option

engineVars == <<fs, now, ops, variant, arg_dir, arg_files, pc, idx, start_watch,
                watcher, watches, attempts, filter_files,
                filter_files_clone, files_watched, setup_time, chan, receiver, last,
                traced, hist>>
gfVars == <<gf_files, gf_ratio, gf_result, gf_state>>
walkVars == <<tree, collected, walk_state>>
procVars == <<main_pc, collector, main_mode, watched_count, modify_i>>
loopVars == <<outcomes, event_count, polls>>
divVars == <<div_count, div_result>>
modeVars == <<mode_s, mode_result>>
mainVars == <<procVars, loopVars, divVars, modeVars>>
vars == <<engineVars, gfVars, walkVars, mainVars>>

\* ------------------------------------------------------------- filesystem
\* Path::exists
exists(p) == fs[p] # "missing"

\* Path::is_file
is_file(p) == fs[p] = "file"

\* ------------------------------------------------------------ the backend
\* The outcomes Watcher::watch(p, mode) can have: a missing path is an error,
\* and the backend may reject an existing one (watch limit, unsupported mode).
WatchOutcomes(p) == IF exists(p) THEN {TRUE, FALSE} ELSE {FALSE}

\* The watcher object of h holds a watch that reports changes of p: a watch on
\* p itself, or a watch on the root directory, whose entries the files are.
Covers(h, p) ==
  /\ watcher[h]
  /\ \E w \in watches[h] : w.path = p \/ (w.path = Root /\ p \in Files)

\* The value is put at the head of the queue.
Send_front(h, res) == IF receiver[h] THEN <<res>> \o chan[h] ELSE chan[h]

\* mpsc::Sender::send: queues the value while the Receiver is alive and fails
\* (the value is discarded) once it has been dropped.
Send(h, res) == IF receiver[h] THEN Append(chan[h], res) ELSE chan[h]

\* The watcher object is forgotten and the backend keeps its watches.
drop_watcher_leak(h) ==
  /\ watcher' = [watcher EXCEPT ![h] = FALSE]
  /\ UNCHANGED watches

\* Dropping the RecommendedWatcher: the backend removes its watches and stops
\* its event loop, so the callback runs no more; the callback, and the Sender
\* it owns, go with it.
drop_watcher(h) ==
  /\ watcher' = [watcher EXCEPT ![h] = FALSE]
  /\ watches' = [watches EXCEPT ![h] = {}]

\* Dropping the Receiver: what is still queued is discarded.
drop_receiver(h) ==
  /\ receiver' = [receiver EXCEPT ![h] = FALSE]
  /\ chan' = [chan EXCEPT ![h] = <<>>]

\* ------------------------------------------------------- recv_timeout results
NoRecv == [tag |-> "None", paths |-> <<>>]
Timeout == [tag |-> "Timeout", paths |-> <<>>]
Disconnected == [tag |-> "Disconnected", paths |-> <<>>]

\* --------------------------------------------------------------------- Init
EngineInit ==
  /\ fs \in [Paths -> EntryKinds]
  /\ fs[Root] \in {"dir", "missing"}
  /\ \A p \in Files : fs[p] \in {"file", "missing"}
  /\ fs[Root] = "missing" => \A p \in Files : fs[p] = "missing"
  /\ now = 0
  /\ ops = 0
  /\ variant = [h \in Handles |-> "none"]
  /\ arg_dir = [h \in Handles |-> Root]
  /\ arg_files = [h \in Handles |-> <<>>]
  /\ pc = [h \in Handles |-> "none"]
  /\ idx = [h \in Handles |-> 0]
  /\ start_watch = [h \in Handles |-> 0]
  /\ watcher = [h \in Handles |-> FALSE]
  /\ watches = [h \in Handles |-> {}]
  /\ attempts = [h \in Handles |-> <<>>]
  /\ filter_files = [h \in Handles |-> {}]
  /\ filter_files_clone = [h \in Handles |-> {}]
  /\ files_watched = [h \in Handles |-> 0]
  /\ setup_time = [h \in Handles |-> 0]
  /\ chan = [h \in Handles |-> <<>>]
  /\ receiver = [h \in Handles |-> FALSE]
  /\ last = [h \in Handles |-> NoRecv]
  /\ hist = [h \in Handles |-> <<>>]

GfIdle ==
  /\ gf_files = <<>>
  /\ gf_ratio = 1
  /\ gf_result = <<>>
  /\ gf_state = "idle"

WalkIdle ==
  /\ tree = <<>>
  /\ collected = <<>>
  /\ walk_state = "idle"

\* No function of main.rs is running, nothing is being parsed or averaged.
ProcIdle ==
  /\ main_pc = "idle"
  /\ collector = "none"
  /\ main_mode = "none"
  /\ watched_count = 0
  /\ modify_i = 0

LoopIdle ==
  /\ outcomes = <<>>
  /\ event_count = 0
  /\ polls = 0

DivIdle ==
  /\ div_count = <<>>
  /\ div_result = [bench |-> "unset", manual |-> "unset"]

ModeIdle ==
  /\ mode_s = <<>>
  /\ mode_result = [some |-> FALSE, mode |-> "unset"]

MainIdle == ProcIdle /\ LoopIdle /\ DivIdle /\ ModeIdle

Init == EngineInit /\ traced = FALSE /\ GfIdle /\ WalkIdle /\ MainIdle

\* ------------------------------------------------------------- callbacks
\* The closure of ManualRecursiveWatcher::new_with_files and of
\* NativeRecursiveWatcher::new: let _ = tx.send(res).
forward_all(h, res) == Send(h, res)

\* Only the first path of the event is looked up.
should_send_first(h, event) ==
  /\ Len(event.paths) > 0
  /\ event.paths[1] \in filter_files_clone[h]

\* The filter set is not consulted.
should_send_always(h, event) == TRUE

\* event.paths.iter().any(|path| filter_files_clone.contains(path))
should_send(h, event) ==
  \E i \in 1..Len(event.paths) : event.paths[i] \in filter_files_clone[h]

\* The closure of NativeRecursiveWatcher::new_with_filter: an Ok event is
\* sent when should_send; anything else falls out of the if let.
forward_filtered(h, res) ==
  IF res.tag = "Ok"
    THEN IF should_send(h, res) THEN Send(h, res) ELSE chan[h]
    ELSE chan[h]

\* The channel of h after the backend has run the callback registered with
\* the watcher object of h on res.
callback(h, res) ==
  IF variant[h] = "filtered" THEN forward_filtered(h, res) ELSE forward_all(h, res)

\* The callback of h calls tx.send on res.
forwards(h, res) ==
  IF variant[h] = "filtered" THEN res.tag = "Ok" /\ should_send(h, res) ELSE TRUE

\* ---------------------------------------------------------------- history
\* An entry of the history of a handle: what happened, the notification it
\* was about, and what became of tx.send ("ok", "discarded" when it returned
\* SendError, "none" when it was not called).
Entry(op, res, sent) == [op |-> op, res |-> res, sent |-> sent]

\* The backend ran the callback of h on res.
callback_entry(h, res) ==
  Entry("callback", res,
        IF ~forwards(h, res) THEN "none"
        ELSE IF receiver[h] THEN "ok" ELSE "discarded")

\* The history of h with e added, in a run that keeps it.
Record(h, e) == IF traced THEN Append(hist[h], e) ELSE hist[h]

\* The positions of the history of h holding an entry of kind op.
At(h, op) == {i \in 1..Len(hist[h]) : hist[h][i].op = op}

\* An entry of kind op lies before position i of the history of h.
Before(h, op, i) == \E j \in At(h, op) : j < i

\* All watcher objects share one channel: a change that any of them covers is
\* pushed to every Receiver.
Detect_shared(p, ev) ==
  /\ chan' = [h \in Handles |->
               IF \E g \in Handles : Covers(g, p) THEN Send(h, ev) ELSE chan[h]]
  /\ hist' = [h \in Handles |->
               IF Covers(h, p) THEN Record(h, callback_entry(h, ev))
               ELSE IF pc[h] \in {"registering", "active", "split"}
                      THEN Record(h, Entry("unseen", ev, "none"))
                      ELSE hist[h]]

\* The backend detects a change of p and runs, with ev, the callback of every
\* watcher object covering p; the handles it does not reach see nothing.
Detect(p, ev) ==
  /\ chan' = [h \in Handles |-> IF Covers(h, p) THEN callback(h, ev) ELSE chan[h]]
  /\ hist' = [h \in Handles |->
               IF Covers(h, p) THEN Record(h, callback_entry(h, ev))
               ELSE IF pc[h] \in {"registering", "active", "split"}
                      THEN Record(h, Entry("unseen", ev, "none"))
                      ELSE hist[h]]

\* ------------------------------------------------------------ environment
\* The filesystem the first constructor finds is any filesystem (Init), and
\* nothing observes the filesystem once every handle is gone: the mutations
\* of interest are those made while a constructor runs or a part of a handle
\* (the watcher object, the Receiver) is alive.
Started == \E h \in Handles : watcher[h] \/ receiver[h]

\* Some process writes to the file p.
FsModify(p) ==
  /\ ops < MaxOps
  /\ Started
  /\ is_file(p)
  /\ ops' = ops + 1
  /\ Detect(p, OkEvent(<<p>>))
  /\ UNCHANGED <<fs, now, variant, arg_dir, arg_files, pc, idx, start_watch,
                 watcher, watches, attempts, filter_files, filter_files_clone,
                 files_watched, setup_time, receiver, last, gfVars,
                 walkVars, mainVars, traced>>

\* Some process creates the file p under the root.
FsCreate(p) ==
  /\ ops < MaxOps
  /\ Started
  /\ ~exists(p)
  /\ fs[Root] = "dir"
  /\ ops' = ops + 1
  /\ fs' = [fs EXCEPT ![p] = "file"]
  /\ Detect(p, OkEvent(<<p>>))
  /\ UNCHANGED <<now, variant, arg_dir, arg_files, pc, idx, start_watch,
                 watcher, watches, attempts, filter_files, filter_files_clone,
                 files_watched, setup_time, receiver, last, gfVars,
                 walkVars, mainVars, traced>>

\* The removal of a file also takes it out of the set the callbacks consult.
FsRemove_pruning_filter(p) ==
  /\ ops < MaxOps
  /\ Started
  /\ is_file(p)
  /\ ops' = ops + 1
  /\ fs' = [fs EXCEPT ![p] = "missing"]
  /\ Detect(p, OkEvent(<<p>>))
  /\ filter_files_clone' = [h \in Handles |-> filter_files_clone[h] \ {p}]
  /\ UNCHANGED <<now, variant, arg_dir, arg_files, pc, idx, start_watch,
                 watcher, watches, attempts, filter_files,
                 files_watched, setup_time, receiver, last, gfVars,
                 walkVars, mainVars, traced>>

\* Some process removes the file p.
FsRemove(p) ==
  /\ ops < MaxOps
  /\ Started
  /\ is_file(p)
  /\ ops' = ops + 1
  /\ fs' = [fs EXCEPT ![p] = "missing"]
  /\ Detect(p, OkEvent(<<p>>))
  /\ UNCHANGED <<now, variant, arg_dir, arg_files, pc, idx, start_watch,
                 watcher, watches, attempts, filter_files, filter_files_clone,
                 files_watched, setup_time, receiver, last, gfVars,
                 walkVars, mainVars, traced>>

\* What the backend can report besides the single-path events above: an
\* error, an event carrying no path, or one carrying two (a rename).
Reports ==
  {ErrNotification, OkEvent(<<>>)}
    \cup {OkEvent(<<pq[1], pq[2]>>) : pq \in {x \in Files \X Files : x[1] < x[2]}}

\* The callback unwraps the result of tx.send: a failed send panics in the
\* backend's thread and takes the watcher object down.
BackendReport_unwrap(h, res) ==
  /\ ops < MaxOps
  /\ watcher[h]
  /\ ops' = ops + 1
  /\ chan' = [chan EXCEPT ![h] = callback(h, res)]
  /\ hist' = [hist EXCEPT ![h] = Record(h, callback_entry(h, res))]
  /\ IF forwards(h, res) /\ ~receiver[h]
       THEN drop_watcher(h)
       ELSE UNCHANGED <<watcher, watches>>
  /\ UNCHANGED <<fs, now, variant, arg_dir, arg_files, pc, idx, start_watch,
                 attempts, filter_files, filter_files_clone,
                 files_watched, setup_time, receiver, last, gfVars,
                 walkVars, mainVars, traced>>

\* The backend of the live watcher object h reports res: it runs the callback
\* registered with that object on res.
BackendReport(h, res) ==
  /\ ops < MaxOps
  /\ watcher[h]
  /\ ops' = ops + 1
  /\ chan' = [chan EXCEPT ![h] = callback(h, res)]
  /\ hist' = [hist EXCEPT ![h] = Record(h, callback_entry(h, res))]
  /\ UNCHANGED <<fs, now, variant, arg_dir, arg_files, pc, idx, start_watch,
                 watcher, watches, attempts, filter_files, filter_files_clone,
                 files_watched, setup_time, receiver, last, gfVars,
                 walkVars, mainVars, traced>>

\* ----------------------------------------------------------- constructors
\* The main thread builds one watcher at a time; handles are numbered in the
\* order they are built.
CanConstruct(h) ==
  /\ pc[h] = "none"
  /\ \A g \in Handles : pc[g] # "registering"
  /\ \A g \in Handles : g < h => pc[g] # "none"

\* The outcome of the call is ignored (let _ = watcher.watch(..)).
watch_ignoring_error(h, p, mode, ok) ==
  /\ now' = now + 1
  /\ attempts' = [attempts EXCEPT ![h] =
                    Append(@, [path |-> p, mode |-> mode, ok |-> ok])]
  /\ watches' = [watches EXCEPT ![h] =
                   IF ok THEN @ \cup {[path |-> p, mode |-> mode]} ELSE @]
  /\ UNCHANGED <<watcher, receiver, chan, pc>>

\* Watcher::watch(p, mode) on the watcher object of h, with outcome ok. The
\* call takes one tick of the clock.
watch(h, p, mode, ok) ==
  /\ now' = now + 1
  /\ attempts' = [attempts EXCEPT ![h] =
                    Append(@, [path |-> p, mode |-> mode, ok |-> ok])]
  /\ IF ok
       THEN /\ watches' = [watches EXCEPT ![h] = @ \cup {[path |-> p, mode |-> mode]}]
            /\ UNCHANGED <<watcher, receiver, chan, pc>>
       ELSE \* the ? operator returns the error: the locals watcher and rx
            \* go out of scope
            /\ drop_watcher(h)
            /\ drop_receiver(h)
            /\ pc' = [pc EXCEPT ![h] = "failed"]

\* A constructor returns Ok: its locals (the collected path list) are gone,
\* and the record of the calls it made is closed.
end_of_constructor(h) ==
  /\ arg_files' = [arg_files EXCEPT ![h] = <<>>]
  /\ attempts' = [attempts EXCEPT ![h] = <<>>]
  /\ hist' = [hist EXCEPT ![h] = Record(h, Entry("returned", NoRecv, "none"))]

\* mpsc::channel() and RecommendedWatcher::new(closure, Config::default())?
\* with outcome ok, up to start_watch = Instant::now().
create_watcher(h, v, dir, files, filter, ok) ==
  /\ variant' = [variant EXCEPT ![h] = v]
  /\ arg_dir' = [arg_dir EXCEPT ![h] = dir]
  /\ arg_files' = [arg_files EXCEPT ![h] = files]
  /\ IF ok
       THEN /\ pc' = [pc EXCEPT ![h] = "registering"]
            /\ watcher' = [watcher EXCEPT ![h] = TRUE]
            /\ receiver' = [receiver EXCEPT ![h] = TRUE]
            /\ filter_files' = [filter_files EXCEPT ![h] = filter]
            /\ filter_files_clone' = [filter_files_clone EXCEPT ![h] = filter]
            /\ start_watch' = [start_watch EXCEPT ![h] = now]
       ELSE /\ pc' = [pc EXCEPT ![h] = "failed"]
            /\ UNCHANGED <<watcher, receiver, filter_files, filter_files_clone,
                           start_watch>>
  /\ UNCHANGED <<fs, now, ops, idx, watches, attempts, files_watched,
                 setup_time, chan, last, gfVars,
                 walkVars, mainVars, traced, hist>>

\* ManualRecursiveWatcher::new_with_files, up to the registration loop.
new_with_files_begin(h, files, ok) ==
  /\ CanConstruct(h)
  /\ files \in SeqUpTo(Files, MaxList)
  /\ create_watcher(h, "manual", Root, files, {}, ok)

\* The loop walks the list from its end.
new_with_files_watch_reversed(h, ok) ==
  /\ pc[h] = "registering"
  /\ variant[h] = "manual"
  /\ idx[h] < Len(arg_files[h])
  /\ ok \in WatchOutcomes(arg_files[h][Len(arg_files[h]) - idx[h]])
  /\ watch(h, arg_files[h][Len(arg_files[h]) - idx[h]], "NonRecursive", ok)
  /\ idx' = [idx EXCEPT ![h] = IF ok THEN @ + 1 ELSE @]
  /\ UNCHANGED <<fs, ops, variant, arg_dir, arg_files, start_watch,
                 filter_files, filter_files_clone, files_watched, setup_time,
                 last, gfVars,
                 walkVars, mainVars, traced, hist>>

\* One iteration of: for file_path in &files { watcher.watch(file_path,
\* RecursiveMode::NonRecursive)?; }
new_with_files_watch(h, ok) ==
  /\ pc[h] = "registering"
  /\ variant[h] = "manual"
  /\ idx[h] < Len(arg_files[h])
  /\ ok \in WatchOutcomes(arg_files[h][idx[h] + 1])
  /\ watch(h, arg_files[h][idx[h] + 1], "NonRecursive", ok)
  /\ idx' = [idx EXCEPT ![h] = IF ok THEN @ + 1 ELSE @]
  /\ UNCHANGED <<fs, ops, variant, arg_dir, arg_files, start_watch,
                 filter_files, filter_files_clone, files_watched, setup_time,
                 last, gfVars,
                 walkVars, mainVars, traced, hist>>

\* The handle is returned whether or not the loop is over.
new_with_files_return_early(h) ==
  /\ pc[h] = "registering"
  /\ variant[h] = "manual"
  /\ pc' = [pc EXCEPT ![h] = "active"]
  /\ files_watched' = [files_watched EXCEPT ![h] = Len(arg_files[h])]
  /\ setup_time' = [setup_time EXCEPT ![h] = now - start_watch[h]]
  /\ end_of_constructor(h)
  /\ UNCHANGED <<fs, now, ops, variant, arg_dir, idx, start_watch,
                 watcher, watches, filter_files,
                 filter_files_clone, chan, receiver, last, gfVars,
                 walkVars, mainVars, traced>>

\* The loop is over: watch_duration = start_watch.elapsed(), Ok(Self {..}).
new_with_files_return(h) ==
  /\ pc[h] = "registering"
  /\ variant[h] = "manual"
  /\ idx[h] = Len(arg_files[h])
  /\ pc' = [pc EXCEPT ![h] = "active"]
  /\ files_watched' = [files_watched EXCEPT ![h] = Len(arg_files[h])]
  /\ setup_time' = [setup_time EXCEPT ![h] = now - start_watch[h]]
  /\ end_of_constructor(h)
  /\ UNCHANGED <<fs, now, ops, variant, arg_dir, idx, start_watch,
                 watcher, watches, filter_files,
                 filter_files_clone, chan, receiver, last, gfVars,
                 walkVars, mainVars, traced>>

\* NativeRecursiveWatcher::new, up to the registration call.
new_begin(h, dir, ok) ==
  /\ CanConstruct(h)
  /\ dir \in Dirs
  /\ create_watcher(h, "native", dir, <<>>, {}, ok)

\* watcher.watch(dir, RecursiveMode::Recursive)? of NativeRecursiveWatcher::new
new_watch(h, ok) ==
  /\ pc[h] = "registering"
  /\ variant[h] = "native"
  /\ idx[h] = 0
  /\ ok \in WatchOutcomes(arg_dir[h])
  /\ watch(h, arg_dir[h], "Recursive", ok)
  /\ idx' = [idx EXCEPT ![h] = IF ok THEN 1 ELSE @]
  /\ UNCHANGED <<fs, ops, variant, arg_dir, arg_files, start_watch,
                 filter_files, filter_files_clone, files_watched, setup_time,
                 last, gfVars,
                 walkVars, mainVars, traced, hist>>

\* watch_duration = start_watch.elapsed(), Ok(Self {..})
new_return(h) ==
  /\ pc[h] = "registering"
  /\ variant[h] = "native"
  /\ idx[h] = 1
  /\ pc' = [pc EXCEPT ![h] = "active"]
  /\ setup_time' = [setup_time EXCEPT ![h] = now - start_watch[h]]
  /\ end_of_constructor(h)
  /\ UNCHANGED <<fs, now, ops, variant, arg_dir, idx, start_watch,
                 watcher, watches, filter_files,
                 filter_files_clone, files_watched, chan, receiver, last, gfVars,
                 walkVars, mainVars, traced>>

\* The candidates are kept when they exist, regular files or not.
build_filter_exists_only(files) ==
  {files[i] : i \in {j \in 1..Len(files) : exists(files[j])}}

\* files_to_watch.into_iter().filter(|p| p.exists() && p.is_file()).collect()
\* into a HashSet
build_filter(files) ==
  {files[i] : i \in {j \in 1..Len(files) : exists(files[j]) /\ is_file(files[j])}}

\* NativeRecursiveWatcher::new_with_filter, up to the registration call.
new_with_filter_begin(h, dir, files, ok) ==
  /\ CanConstruct(h)
  /\ dir \in Dirs
  /\ files \in SeqUpTo(Paths, MaxList)
  /\ create_watcher(h, "filtered", dir, files, build_filter(files), ok)

\* The directory is watched in non-recursive mode.
new_with_filter_watch_nonrecursive(h, ok) ==
  /\ pc[h] = "registering"
  /\ variant[h] = "filtered"
  /\ idx[h] = 0
  /\ ok \in WatchOutcomes(arg_dir[h])
  /\ watch(h, arg_dir[h], "NonRecursive", ok)
  /\ idx' = [idx EXCEPT ![h] = IF ok THEN 1 ELSE @]
  /\ UNCHANGED <<fs, ops, variant, arg_dir, arg_files, start_watch,
                 filter_files, filter_files_clone, files_watched, setup_time,
                 last, gfVars,
                 walkVars, mainVars, traced, hist>>

\* watcher.watch(dir, RecursiveMode::Recursive)? of new_with_filter
new_with_filter_watch(h, ok) ==
  /\ pc[h] = "registering"
  /\ variant[h] = "filtered"
  /\ idx[h] = 0
  /\ ok \in WatchOutcomes(arg_dir[h])
  /\ watch(h, arg_dir[h], "Recursive", ok)
  /\ idx' = [idx EXCEPT ![h] = IF ok THEN 1 ELSE @]
  /\ UNCHANGED <<fs, ops, variant, arg_dir, arg_files, start_watch,
                 filter_files, filter_files_clone, files_watched, setup_time,
                 last, gfVars,
                 walkVars, mainVars, traced, hist>>

\* watch_duration = start_watch.elapsed(), Ok(FilteredNativeRecursiveWatcher {..})
new_with_filter_return(h) ==
  /\ pc[h] = "registering"
  /\ variant[h] = "filtered"
  /\ idx[h] = 1
  /\ pc' = [pc EXCEPT ![h] = "active"]
  /\ setup_time' = [setup_time EXCEPT ![h] = now - start_watch[h]]
  /\ end_of_constructor(h)
  /\ UNCHANGED <<fs, now, ops, variant, arg_dir, idx, start_watch,
                 watcher, watches, filter_files,
                 filter_files_clone, files_watched, chan, receiver, last, gfVars,
                 walkVars, mainVars, traced>>

\* ---------------------------------------------------------------- accessors
\* FilteredNativeRecursiveWatcher::files_filtered
files_filtered(h) == Cardinality(filter_files[h])

\* ------------------------------------------------------- using the handle
\* into_parts(self): the watcher object and the Receiver become two values.
into_parts(h) ==
  /\ pc[h] = "active"
  /\ watcher[h]
  /\ receiver[h]
  /\ pc' = [pc EXCEPT ![h] = "split"]
  /\ UNCHANGED <<fs, now, ops, variant, arg_dir, arg_files, idx, start_watch,
                 watcher, watches, attempts, filter_files,
                 filter_files_clone, files_watched, setup_time, chan, receiver,
                 last, gfVars,
                 walkVars, mainVars, traced, hist>>

\* An empty queue is reported as Disconnected whether or not the Sender lives.
recv_empty_is_disconnected(h) ==
  /\ pc[h] \in {"active", "split"}
  /\ receiver[h]
  /\ IF chan[h] # <<>>
       THEN /\ last' = [last EXCEPT ![h] = Head(chan[h])]
            /\ chan' = [chan EXCEPT ![h] = Tail(@)]
            /\ hist' = [hist EXCEPT ![h] = Record(h, Entry("recv", Head(chan[h]), "none"))]
       ELSE /\ last' = [last EXCEPT ![h] = Disconnected]
            /\ UNCHANGED <<chan, hist>>
  /\ UNCHANGED <<fs, now, ops, variant, arg_dir, arg_files, pc, idx,
                 start_watch, watcher, watches, attempts, filter_files,
                 filter_files_clone, files_watched, setup_time, receiver, gfVars,
                 walkVars, mainVars, traced>>

\* The oldest queued notification is returned and stays queued.
recv_without_pop(h) ==
  /\ pc[h] \in {"active", "split"}
  /\ receiver[h]
  /\ IF chan[h] # <<>>
       THEN /\ last' = [last EXCEPT ![h] = Head(chan[h])]
            /\ hist' = [hist EXCEPT ![h] = Record(h, Entry("recv", Head(chan[h]), "none"))]
            /\ UNCHANGED chan
       ELSE /\ last' = [last EXCEPT ![h] = IF watcher[h] THEN Timeout ELSE Disconnected]
            /\ UNCHANGED <<chan, hist>>
  /\ UNCHANGED <<fs, now, ops, variant, arg_dir, arg_files, pc, idx,
                 start_watch, watcher, watches, attempts, filter_files,
                 filter_files_clone, files_watched, setup_time, receiver, gfVars,
                 walkVars, mainVars, traced>>

\* rx.recv_timeout(..): the oldest queued notification; else Disconnected when
\* the Sender is gone (it lives in the callback, inside the watcher object);
\* else Timeout.
recv_timeout(h) ==
  /\ pc[h] \in {"active", "split"}
  /\ receiver[h]
  /\ IF chan[h] # <<>>
       THEN /\ last' = [last EXCEPT ![h] = Head(chan[h])]
            /\ chan' = [chan EXCEPT ![h] = Tail(@)]
            /\ hist' = [hist EXCEPT ![h] = Record(h, Entry("recv", Head(chan[h]), "none"))]
       ELSE /\ last' = [last EXCEPT ![h] = IF watcher[h] THEN Timeout ELSE Disconnected]
            /\ UNCHANGED <<chan, hist>>
  /\ UNCHANGED <<fs, now, ops, variant, arg_dir, arg_files, pc, idx,
                 start_watch, watcher, watches, attempts, filter_files,
                 filter_files_clone, files_watched, setup_time, receiver, gfVars,
                 walkVars, mainVars, traced>>

\* The whole handle goes out of scope (the match arms of "compare").
drop_handle(h) ==
  /\ pc[h] = "active"
  /\ watcher[h]
  /\ drop_watcher(h)
  /\ drop_receiver(h)
  /\ hist' = [hist EXCEPT ![h] =
               IF traced
                 THEN @ \o <<Entry("drop_watcher", NoRecv, "none"),
                             Entry("drop_receiver", NoRecv, "none")>>
                 ELSE @]
  /\ UNCHANGED <<fs, now, ops, variant, arg_dir, arg_files, pc, idx,
                 start_watch, attempts, filter_files, filter_files_clone,
                 files_watched, setup_time, last, gfVars,
                 walkVars, mainVars, traced>>

\* The watcher part of a split handle is forgotten (mem::forget): the backend
\* goes on.
forget_watcher_part(h) ==
  /\ pc[h] = "split"
  /\ watcher[h]
  /\ At(h, "drop_watcher") = {}
  /\ hist' = [hist EXCEPT ![h] = Record(h, Entry("drop_watcher", NoRecv, "none"))]
  /\ UNCHANGED <<fs, now, ops, variant, arg_dir, arg_files, pc, idx,
                 start_watch, attempts, filter_files, filter_files_clone,
                 files_watched, setup_time, chan, receiver, last, gfVars,
                 walkVars, mainVars, traced, watcher, watches>>

\* The watcher part of a split handle goes out of scope.
drop_watcher_part(h) ==
  /\ pc[h] = "split"
  /\ watcher[h]
  /\ drop_watcher(h)
  /\ hist' = [hist EXCEPT ![h] = Record(h, Entry("drop_watcher", NoRecv, "none"))]
  /\ UNCHANGED <<fs, now, ops, variant, arg_dir, arg_files, pc, idx,
                 start_watch, attempts, filter_files, filter_files_clone,
                 files_watched, setup_time, chan, receiver, last, gfVars,
                 walkVars, mainVars, traced>>

\* The Receiver part of a split handle goes out of scope.
drop_receiver_part(h) ==
  /\ pc[h] = "split"
  /\ receiver[h]
  /\ drop_receiver(h)
  /\ hist' = [hist EXCEPT ![h] = Record(h, Entry("drop_receiver", NoRecv, "none"))]
  /\ UNCHANGED <<fs, now, ops, variant, arg_dir, arg_files, pc, idx,
                 start_watch, watcher, watches, attempts, filter_files,
                 filter_files_clone, files_watched, setup_time, last, gfVars,
                 walkVars, mainVars, traced>>

\* --------------------------------------------------------------------- Next
\* One run of the engine: one handle is built and used.
Next ==
  \/ \E p \in Files : FsModify(p)
  \/ \E p \in Files : FsCreate(p)
  \/ \E p \in Files : FsRemove(p)
  \/ \E h \in {1}, res \in Reports : BackendReport(h, res)
  \/ \E h \in {1}, files \in SeqUpTo(Files, MaxList), ok \in BOOLEAN :
       new_with_files_begin(h, files, ok)
  \/ \E h \in {1}, ok \in BOOLEAN : new_with_files_watch(h, ok)
  \/ \E h \in {1} : new_with_files_return(h)
  \/ \E h \in {1}, dir \in Dirs, ok \in BOOLEAN : new_begin(h, dir, ok)
  \/ \E h \in {1}, ok \in BOOLEAN : new_watch(h, ok)
  \/ \E h \in {1} : new_return(h)
  \/ \E h \in {1}, dir \in Dirs, files \in SeqUpTo(Paths, MaxList), ok \in BOOLEAN :
       new_with_filter_begin(h, dir, files, ok)
  \/ \E h \in {1}, ok \in BOOLEAN : new_with_filter_watch(h, ok)
  \/ \E h \in {1} : new_with_filter_return(h)
  \/ \E h \in {1} : into_parts(h)
  \/ \E h \in {1} : recv_timeout(h)
  \/ \E h \in {1} : drop_handle(h)
  \/ \E h \in {1} : drop_watcher_part(h)
  \/ \E h \in {1} : drop_receiver_part(h)

Spec == Init /\ [][Next]_vars

\* ------------------------------------------------------------ traced runs
\* Runs that keep the history of every handle. The tree is the root with its
\* files, all present; a per-file watcher and a filter are given the first
\* file, so that the second one is a file under the root that is neither
\* watched by itself nor in the Filter Set; every registration succeeds.
ObsInit ==
  /\ EngineInit
  /\ fs[Root] = "dir"
  /\ \A p \in Files : fs[p] = "file"
  /\ traced = TRUE
  /\ GfIdle
  /\ WalkIdle
  /\ MainIdle

\* The argument files_to_watch of the traced runs.
ObsList == <<1>>

\* The files the traced runs write to.
ObsFiles == {1, 2}

\* The reports of the traced runs: an error and a rename of one file to the
\* other.
ObsReports == {ErrNotification, OkEvent(<<1, 2>>)}

\* A traced run of one handle.
ObsNext ==
  \/ \E p \in ObsFiles : FsModify(p)
  \/ \E p \in {1} : FsCreate(p)
  \/ \E p \in {1} : FsRemove(p)
  \/ \E h \in {1}, res \in ObsReports : BackendReport(h, res)
  \/ \E h \in {1} : new_with_files_begin(h, ObsList, TRUE)
  \/ \E h \in {1} : new_with_files_watch(h, TRUE)
  \/ \E h \in {1} : new_with_files_return(h)
  \/ \E h \in {1} : new_begin(h, Root, TRUE)
  \/ \E h \in {1} : new_watch(h, TRUE)
  \/ \E h \in {1} : new_return(h)
  \/ \E h \in {1} : new_with_filter_begin(h, Root, ObsList, TRUE)
  \/ \E h \in {1} : new_with_filter_watch(h, TRUE)
  \/ \E h \in {1} : new_with_filter_return(h)
  \/ \E h \in {1} : into_parts(h)
  \/ \E h \in {1} : recv_timeout(h)
  \/ \E h \in {1} : drop_handle(h)
  \/ \E h \in {1} : drop_watcher_part(h)
  \/ \E h \in {1} : drop_receiver_part(h)

SpecObs == ObsInit /\ [][ObsNext]_vars

\* A traced run of two handles, each a per-file watcher of the first file or
\* a native watcher of the root, with writes to that file; the channels are
\* looked at, not consumed.
TwoNext ==
  \/ \E p \in {1} : FsModify(p)
  \/ \E h \in Handles : new_with_files_begin(h, ObsList, TRUE)
  \/ \E h \in Handles : new_with_files_watch(h, TRUE)
  \/ \E h \in Handles : new_with_files_return(h)
  \/ \E h \in Handles : new_begin(h, Root, TRUE)
  \/ \E h \in Handles : new_watch(h, TRUE)
  \/ \E h \in Handles : new_return(h)
  \/ \E h \in Handles : into_parts(h)
  \/ \E h \in Handles : drop_handle(h)
  \/ \E h \in Handles : drop_watcher_part(h)
  \/ \E h \in Handles : drop_receiver_part(h)

SpecTwo == ObsInit /\ [][TwoNext]_vars

\* ------------------------------------------------------ get_filtered_files
\* all_files.iter().enumerate().filter_map(|(i, path)| if i % filter_ratio
\* == 0 { Some(path.clone()) } else { None }), from the i-th element on.
RECURSIVE filter_map(_, _, _)
filter_map(all_files, filter_ratio, i) ==
  IF i >= Len(all_files)
    THEN <<>>
    ELSE (IF i % filter_ratio = 0 THEN <<all_files[i + 1]>> ELSE <<>>)
           \o filter_map(all_files, filter_ratio, i + 1)

\* The enumeration starts at the second element.
get_filtered_files_from_one(all_files, filter_ratio) ==
  filter_map(all_files, filter_ratio, 1)

get_filtered_files(all_files, filter_ratio) ==
  filter_map(all_files, filter_ratio, 0)

\* The inputs of get_filtered_files: any list, any ratio. i % 0 panics, which
\* takes a first element to happen.
GfInit ==
  /\ EngineInit
  /\ \A p \in Paths : fs[p] = "missing"
  /\ gf_files \in SeqUpTo(Files, MaxLen)
  /\ gf_ratio \in 0..MaxRatio
  /\ gf_result = <<>>
  /\ gf_state = "input"
  /\ traced = FALSE
  /\ WalkIdle
  /\ MainIdle

gf_call ==
  /\ gf_state = "input"
  /\ IF gf_ratio = 0 /\ gf_files # <<>>
       THEN /\ gf_state' = "panicked"
            /\ UNCHANGED gf_result
       ELSE /\ gf_state' = "returned"
            /\ gf_result' = IF gf_ratio = 0
                              THEN <<>>
                              ELSE get_filtered_files(gf_files, gf_ratio)
  /\ UNCHANGED <<engineVars, walkVars, mainVars, gf_files, gf_ratio>>

GfNext == gf_call

SpecGf == GfInit /\ [][GfNext]_vars

\* ------------------------------------------------- collect_files_recursive
\* The tree under dir: dir is node Root, the entries are the nodes 1.., each
\* with the directory it is an entry of and its kind: a regular file, a
\* directory, a directory read_dir fails on ("locked": no permission, removed
\* in between), an entry that is neither ("other"), or an entry whose read
\* failed ("error"). A dir argument that is missing or no directory is a
\* locked root.
Nodes == 1..MaxNodes
NodeKinds == {"file", "dir", "locked", "other", "error"}

Trees ==
  {t \in {[parent |-> pa, kind |-> k] :
            pa \in {f \in [Nodes -> {Root} \cup Nodes] : \A n \in Nodes : f[n] < n},
            k \in {g \in [{Root} \cup Nodes -> NodeKinds] : g[Root] \in {"dir", "locked"}}} :
     \A n \in Nodes : t.kind[t.parent[n]] \in {"dir", "locked"}}

\* The elements of a set of nodes in increasing order.
RECURSIVE Sorted(_)
Sorted(S) ==
  IF S = {} THEN <<>>
  ELSE LET m == CHOOSE x \in S : \A y \in S : x <= y
       IN <<m>> \o Sorted(S \ {m})

\* fs::read_dir(dir) of an openable directory, after filter_map(Result::ok):
\* its entries but those whose read failed.
entries(t, dir) ==
  Sorted({n \in Nodes : t.parent[n] = dir /\ t.kind[n] # "error"})

\* path.is_dir() and path.is_file() of an entry
path_is_dir(t, path) == t.kind[path] \in {"dir", "locked"}
path_is_file(t, path) == t.kind[path] = "file"

RECURSIVE for_entries(_, _, _)
RECURSIVE collect_files_recursive_impl(_, _, _)

\* Subdirectories are not entered.
collect_files_flat(t, dir, files) ==
  IF t.kind[dir] = "dir"
    THEN files \o SelectSeq(entries(t, dir), LAMBDA path : path_is_file(t, path))
    ELSE files

\* A directory that fails to open throws away what has been collected.
collect_files_reset_on_error(t, dir, files) ==
  IF t.kind[dir] = "dir"
    THEN for_entries(t, entries(t, dir), files)
    ELSE <<>>

\* if let Ok(entries) = fs::read_dir(dir) { for entry in .. { .. } }
collect_files_recursive_impl(t, dir, files) ==
  IF t.kind[dir] = "dir"
    THEN for_entries(t, entries(t, dir), files)
    ELSE files

\* The body of the for loop, over the entries es still to visit.
for_entries(t, es, files) ==
  IF es = <<>>
    THEN files
    ELSE LET path == Head(es)
         IN for_entries(t, Tail(es),
              IF path_is_dir(t, path)
                THEN collect_files_recursive_impl(t, path, files)
                ELSE IF path_is_file(t, path) THEN Append(files, path) ELSE files)

\* let mut files = Vec::new(); collect_files_recursive_impl(dir, &mut files); files
collect_files_recursive(t, dir) == collect_files_recursive_impl(t, dir, <<>>)

\* The input of collect_files_recursive: any tree.
WalkInit ==
  /\ EngineInit
  /\ \A p \in Paths : fs[p] = "missing"
  /\ traced = FALSE
  /\ GfIdle
  /\ MainIdle
  /\ tree \in Trees
  /\ collected = <<>>
  /\ walk_state = "input"

walk_call ==
  /\ walk_state = "input"
  /\ collected' = collect_files_recursive(tree, Root)
  /\ walk_state' = "returned"
  /\ UNCHANGED <<engineVars, gfVars, mainVars, tree>>

WalkNext == walk_call

SpecWalk == WalkInit /\ [][WalkNext]_vars

\* ---------------------------------------------------- WatcherMode::from_str
\* A &str is the sequence of its characters; a character is the string that
\* holds it, or that names it where it is not an ASCII character: "I_dot" is
\* U+0130, "dot_above" is U+0307, "kelvin" is U+212A.
Str(chars) == chars

NameManual == Str(<<"m", "a", "n", "u", "a", "l">>)
NameNative == Str(<<"n", "a", "t", "i", "v", "e">>)
NameManualFiltered ==
  Str(<<"m", "a", "n", "u", "a", "l", "-", "f", "i", "l", "t", "e", "r", "e", "d">>)
NameNativeFiltered ==
  Str(<<"n", "a", "t", "i", "v", "e", "-", "f", "i", "l", "t", "e", "r", "e", "d">>)

\* Option<WatcherMode>
Some(mode) == [some |-> TRUE, mode |-> mode]
None == [some |-> FALSE, mode |-> "none"]

\* char::to_lowercase for the characters of the model: an ASCII capital gives
\* its small letter, U+0130 gives "i" followed by U+0307, the Kelvin sign
\* gives "k", and any other character of the model gives itself.
char_to_lowercase(c) ==
  CASE c = "A" -> <<"a">> [] c = "D" -> <<"d">> [] c = "E" -> <<"e">>
    [] c = "F" -> <<"f">> [] c = "I" -> <<"i">> [] c = "L" -> <<"l">>
    [] c = "M" -> <<"m">> [] c = "N" -> <<"n">> [] c = "R" -> <<"r">>
    [] c = "T" -> <<"t">> [] c = "U" -> <<"u">> [] c = "V" -> <<"v">>
    [] c = "X" -> <<"x">>
    [] c = "I_dot" -> <<"i", "dot_above">>
    [] c = "kelvin" -> <<"k">>
    [] OTHER -> <<c>>

\* str::to_lowercase: the lowercase mappings of the characters, in order.
RECURSIVE to_lowercase(_)
to_lowercase(s) ==
  IF s = <<>> THEN <<>>
  ELSE char_to_lowercase(Head(s)) \o to_lowercase(Tail(s))

\* The string is matched as it is given.
from_str_exact(s) ==
  CASE s = NameManual -> Some("Manual")
    [] s = NameNative -> Some("Native")
    [] s = NameManualFiltered -> Some("ManualFiltered")
    [] s = NameNativeFiltered -> Some("NativeFiltered")
    [] OTHER -> None

\* match s.to_lowercase().as_str() { "manual" => Some(Self::Manual), ..,
\* _ => None }
from_str(s) ==
  LET lower == to_lowercase(s)
  IN CASE lower = NameManual -> Some("Manual")
       [] lower = NameNative -> Some("Native")
       [] lower = NameManualFiltered -> Some("ManualFiltered")
       [] lower = NameNativeFiltered -> Some("NativeFiltered")
       [] OTHER -> None

\* The ASCII capital of a small letter of the four names; "-" has none.
to_ascii_uppercase(c) ==
  CASE c = "a" -> "A" [] c = "d" -> "D" [] c = "e" -> "E" [] c = "f" -> "F"
    [] c = "i" -> "I" [] c = "l" -> "L" [] c = "m" -> "M" [] c = "n" -> "N"
    [] c = "r" -> "R" [] c = "t" -> "T" [] c = "u" -> "U" [] c = "v" -> "V"
    [] OTHER -> c

\* The name written with capitals at the places caps marks.
Written(name, caps) ==
  [i \in 1..Len(name) |-> IF caps[i] THEN to_ascii_uppercase(name[i]) ELSE name[i]]

\* The characters that are put into a name to spoil it.
SpoilChars == {"x", "X", "-", "_", " ", "I_dot", "dot_above", "kelvin", "M", "e"}

\* A string with one character replaced, one character put in, or one
\* character left out.
Spoiled(s) ==
  {[s EXCEPT ![i] = c] : i \in 1..Len(s), c \in SpoilChars}
    \cup {SubSeq(s, 1, i) \o <<c>> \o SubSeq(s, i + 1, Len(s)) :
            i \in 0..Len(s), c \in SpoilChars}
    \cup {SubSeq(s, 1, i - 1) \o SubSeq(s, i + 1, Len(s)) : i \in 1..Len(s)}

\* The other arguments of the command line and of the tests.
OtherWords ==
  {Str(<<>>),
   Str(<<"i", "n", "v", "a", "l", "i", "d">>),
   Str(<<"c", "o", "m", "p", "a", "r", "e">>),
   Str(<<"t", "e", "s", "t">>),
   Str(<<"t", "e", "s", "t", "-", "n", "a", "t", "i", "v", "e">>),
   Str(<<"m", "a", "n", "u", "a", "l", "f", "i", "l", "t", "e", "r", "e", "d">>),
   NameManual \o NameNative,
   NameNative \o <<"-">>}

\* The arguments given to from_str: every way of writing each of the four
\* names in capitals and small letters; the short names spoiled in every
\* writing, the long ones in small letters and in capitals; the other words.
ModeInputs(s) ==
  \/ \E name \in {NameManual, NameNative, NameManualFiltered, NameNativeFiltered} :
       \E caps \in [1..Len(name) -> BOOLEAN] : s = Written(name, caps)
  \/ \E name \in {NameManual, NameNative} :
       \E caps \in [1..Len(name) -> BOOLEAN] : s \in Spoiled(Written(name, caps))
  \/ \E name \in {NameManualFiltered, NameNativeFiltered}, all \in BOOLEAN :
       s \in Spoiled(Written(name, [i \in 1..Len(name) |-> all]))
  \/ s \in OtherWords

ModeInit ==
  /\ EngineInit
  /\ \A p \in Paths : fs[p] = "missing"
  /\ traced = FALSE
  /\ GfIdle
  /\ WalkIdle
  /\ ProcIdle
  /\ LoopIdle
  /\ DivIdle
  /\ ModeInputs(mode_s)
  /\ mode_result = [some |-> FALSE, mode |-> "unset"]

\* WatcherMode::from_str(mode_str)
from_str_call ==
  /\ mode_result = [some |-> FALSE, mode |-> "unset"]
  /\ mode_result' = from_str(mode_s)
  /\ UNCHANGED <<engineVars, gfVars, walkVars, procVars, loopVars, divVars, mode_s>>

ModeNext == from_str_call

SpecMode == ModeInit /\ [][ModeNext]_vars

\* ------------------------------------------------- average time per file
\* An unsigned integer is the sequence of its 16-bit limbs, the least
\* significant first: a u32 has two of them, a usize (on a 64-bit target)
\* four.
LimbBase == 65536
U32Limbs == 2
UsizeLimbs == 4

\* The usize holding the small number n.
usize(n) == [i \in 1..UsizeLimbs |-> IF i = 1 THEN n ELSE 0]

IsZero(x) == \A i \in DOMAIN x : x[i] = 0

\* n.max(1)
max_1(n) == IF IsZero(n) THEN usize(1) ELSE n

\* n as u32: the low 32 bits.
as_u32(n) == [i \in 1..U32Limbs |-> n[i]]

\* Duration / u32 panics on a zero divisor.
duration_div(rhs) == IF IsZero(rhs) THEN "panic" ELSE "ok"

\* if matches!(mode, ManualFiltered | NativeFiltered) { println!(..,
\* setup_time / watched_count.max(1) as u32); }
bench_average(m, count) ==
  IF m \in {"ManualFiltered", "NativeFiltered"}
    THEN duration_div(as_u32(max_1(count)))
    ELSE "skipped"

\* if files_count > 0 { println!(.., watch_duration / files_count as u32); }
new_with_files_average(files_count) ==
  IF ~IsZero(files_count)
    THEN duration_div(as_u32(files_count))
    ELSE "skipped"

WatcherModes == {"Manual", "Native", "ManualFiltered", "NativeFiltered"}

\* The limbs the file counts are made of.
LimbValues == {0, 1, 2, LimbBase - 1}

DivInit ==
  /\ EngineInit
  /\ \A p \in Paths : fs[p] = "missing"
  /\ traced = FALSE
  /\ GfIdle
  /\ WalkIdle
  /\ LoopIdle
  /\ ModeIdle
  /\ main_pc = "idle"
  /\ collector = "none"
  /\ main_mode \in WatcherModes
  /\ watched_count = 0
  /\ modify_i = 0
  /\ div_count \in [1..UsizeLimbs -> LimbValues]
  /\ div_result = [bench |-> "unset", manual |-> "unset"]

\* The average of benchmark_watcher, for watched_count = div_count.
bench_average_call ==
  /\ div_result.bench = "unset"
  /\ div_result' = [div_result EXCEPT !.bench = bench_average(main_mode, div_count)]
  /\ UNCHANGED <<engineVars, gfVars, walkVars, procVars, loopVars, modeVars, div_count>>

\* The average of new_with_files, for files_count = div_count.
new_with_files_average_call ==
  /\ div_result.manual = "unset"
  /\ div_result' = [div_result EXCEPT !.manual = new_with_files_average(div_count)]
  /\ UNCHANGED <<engineVars, gfVars, walkVars, procVars, loopVars, modeVars, div_count>>

DivNext ==
  \/ bench_average_call
  \/ new_with_files_average_call

SpecDiv == DivInit /\ [][DivNext]_vars

\* ------------------------------------------------------- benchmark_watcher
\* all_files = collect_files_recursive(dir), for the tree of the traced runs:
\* the files under the root.
AllFiles == [i \in 1..MaxFiles |-> i]

\* let filter_ratio = 10;
BenchFilterRatio == 10

\* filtered_files = get_filtered_files(&all_files, filter_ratio)
FilteredFiles == get_filtered_files(AllFiles, BenchFilterRatio)

\* benchmark_watcher(dir, mode) has been called, in any of the four modes,
\* and is about to set up its watcher.
BenchInit ==
  /\ EngineInit
  /\ fs[Root] = "dir"
  /\ \A p \in Files : fs[p] = "file"
  /\ traced = TRUE
  /\ GfIdle
  /\ WalkIdle
  /\ LoopIdle
  /\ DivIdle
  /\ ModeIdle
  /\ main_pc = "bench_setup"
  /\ collector = "none"
  /\ main_mode \in WatcherModes
  /\ watched_count = 0
  /\ modify_i = 0

\* The constructor call of the match arm of the mode, up to its
\* registration calls.
bench_construct(h, ok) ==
  /\ main_pc = "bench_setup"
  /\ \/ main_mode = "Manual" /\ new_with_files_begin(h, AllFiles, ok)
     \/ main_mode = "Native" /\ new_begin(h, Root, ok)
     \/ main_mode = "ManualFiltered" /\ new_with_files_begin(h, FilteredFiles, ok)
     \/ main_mode = "NativeFiltered" /\ new_with_filter_begin(h, Root, FilteredFiles, ok)

\* A registration call of the constructor.
bench_watch(h, ok) ==
  /\ main_pc = "bench_setup"
  /\ \/ new_with_files_watch(h, ok)
     \/ new_watch(h, ok)
     \/ new_with_filter_watch(h, ok)

\* The constructor returns Ok.
bench_constructed(h) ==
  /\ main_pc = "bench_setup"
  /\ \/ new_with_files_return(h)
     \/ new_return(h)
     \/ new_with_filter_return(h)

\* The constructor returned Err: the ? returns it from benchmark_watcher.
bench_failed(h) ==
  /\ main_pc = "bench_setup"
  /\ pc[h] = "failed"
  /\ main_pc' = "bench_err"
  /\ UNCHANGED <<engineVars, gfVars, walkVars, loopVars, divVars, modeVars,
                 collector, main_mode, watched_count, modify_i>>

\* let (_watcher, rx) = watcher.into_parts();
bench_into_parts(h) ==
  /\ main_pc = "bench_setup"
  /\ into_parts(h)

\* watched_count, as the arm of the mode gives it.
bench_watched(h) ==
  CASE main_mode = "Native" -> Len(AllFiles)
    [] main_mode = "NativeFiltered" -> files_filtered(h)
    [] OTHER -> files_watched[h]

\* The block of the match arm ends with (setup_time, rx, watched): the tuple
\* is moved out and _watcher, a local of the block, is dropped there. Then the
\* setup is printed, with the average for the filtered modes, and the wait
\* starts: test_start = Instant::now(), event_count = 0.
bench_arm_end(h) ==
  /\ main_pc = "bench_setup"
  /\ pc[h] = "split"
  /\ watcher[h]
  /\ drop_watcher(h)
  /\ hist' = [hist EXCEPT ![h] = Record(h, Entry("drop_watcher", NoRecv, "none"))]
  /\ watched_count' = bench_watched(h)
  /\ main_pc' = IF bench_average(main_mode, usize(bench_watched(h))) = "panic"
                  THEN "bench_panic" ELSE "bench_loop"
  /\ event_count' = 0
  /\ UNCHANGED <<fs, now, ops, variant, arg_dir, arg_files, pc, idx,
                 start_watch, attempts, filter_files, filter_files_clone,
                 files_watched, setup_time, chan, receiver, last, traced,
                 gfVars, walkVars, divVars, modeVars, collector, main_mode,
                 modify_i, outcomes, polls>>

\* A notification error ends the wait.
wait_loop_body_break_on_error(res) ==
  /\ event_count' = IF res.tag = "Ok" THEN event_count + 1 ELSE event_count
  /\ main_pc' = IF res.tag \in {"Disconnected", "Err"}
                  THEN "bench_after_loop" ELSE "bench_loop"

\* The body of while test_start.elapsed() < test_duration, for the result res
\* of rx.recv_timeout: Ok(Ok(event)) is counted, Ok(Err(e)) is printed,
\* Timeout does nothing, Disconnected breaks.
wait_loop_body(res) ==
  /\ event_count' = IF res.tag = "Ok" THEN event_count + 1 ELSE event_count
  /\ main_pc' = IF res.tag = "Disconnected" THEN "bench_after_loop" ELSE "bench_loop"

\* One turn of the wait loop on the Receiver of h.
bench_recv(h) ==
  /\ main_pc = "bench_loop"
  /\ receiver[h]
  /\ IF chan[h] # <<>>
       THEN /\ last' = [last EXCEPT ![h] = Head(chan[h])]
            /\ chan' = [chan EXCEPT ![h] = Tail(@)]
            /\ hist' = [hist EXCEPT ![h] = Record(h, Entry("recv", Head(chan[h]), "none"))]
       ELSE /\ last' = [last EXCEPT ![h] = IF watcher[h] THEN Timeout ELSE Disconnected]
            /\ UNCHANGED <<chan, hist>>
  /\ wait_loop_body(last'[h])
  /\ UNCHANGED <<fs, now, ops, variant, arg_dir, arg_files, pc, idx,
                 start_watch, watcher, watches, attempts, filter_files,
                 filter_files_clone, files_watched, setup_time, receiver,
                 traced, gfVars, walkVars, divVars, modeVars, collector,
                 main_mode, watched_count, modify_i, outcomes, polls>>

\* test_start.elapsed() has reached test_duration: the loop is left.
bench_time_up ==
  /\ main_pc = "bench_loop"
  /\ main_pc' = "bench_after_loop"
  /\ UNCHANGED <<engineVars, gfVars, walkVars, loopVars, divVars, modeVars,
                 collector, main_mode, watched_count, modify_i>>

\* Ok(()): the function returns and rx is dropped.
bench_return(h) ==
  /\ main_pc = "bench_after_loop"
  /\ receiver[h]
  /\ drop_receiver(h)
  /\ hist' = [hist EXCEPT ![h] = Record(h, Entry("drop_receiver", NoRecv, "none"))]
  /\ main_pc' = "bench_ok"
  /\ UNCHANGED <<fs, now, ops, variant, arg_dir, arg_files, pc, idx,
                 start_watch, watcher, watches, attempts, filter_files,
                 filter_files_clone, files_watched, setup_time, last, traced,
                 gfVars, walkVars, loopVars, divVars, modeVars, collector,
                 main_mode, watched_count, modify_i>>

\* A run of benchmark_watcher, with writes to the files and reports of the
\* backend at any moment.
BenchNext ==
  \/ \E p \in ObsFiles : FsModify(p)
  \/ \E h \in {1}, res \in ObsReports : BackendReport(h, res)
  \/ \E h \in {1}, ok \in BOOLEAN : bench_construct(h, ok)
  \/ \E h \in {1}, ok \in BOOLEAN : bench_watch(h, ok)
  \/ \E h \in {1} : bench_constructed(h)
  \/ \E h \in {1} : bench_failed(h)
  \/ \E h \in {1} : bench_into_parts(h)
  \/ \E h \in {1} : bench_arm_end(h)
  \/ \E h \in {1} : bench_recv(h)
  \/ bench_time_up
  \/ \E h \in {1} : bench_return(h)

SpecBench == BenchInit /\ [][BenchNext]_vars

\* ------------------------------------------------------ the wait loop alone
\* The longest sequence of results given to the wait loop.
MaxResults == 4

\* What rx.recv_timeout can give: an event, an error, Timeout, Disconnected.
RecvResults == {OkEvent(<<1>>), ErrNotification, Timeout, Disconnected}

\* The watcher has been constructed and the wait loop is entered; outcomes
\* holds what rx.recv_timeout is going to return, call after call.
LoopInit ==
  /\ EngineInit
  /\ \A p \in Paths : fs[p] = "missing"
  /\ traced = FALSE
  /\ GfIdle
  /\ WalkIdle
  /\ DivIdle
  /\ ModeIdle
  /\ main_pc = "bench_loop"
  /\ collector = "none"
  /\ main_mode = "Native"
  /\ watched_count = 0
  /\ modify_i = 0
  /\ outcomes \in SeqUpTo(RecvResults, MaxResults)
  /\ event_count = 0
  /\ polls = 0

\* One turn of the wait loop on the next result.
loop_recv ==
  /\ main_pc = "bench_loop"
  /\ polls < Len(outcomes)
  /\ polls' = polls + 1
  /\ wait_loop_body(outcomes[polls + 1])
  /\ UNCHANGED <<engineVars, gfVars, walkVars, divVars, modeVars, collector,
                 main_mode, watched_count, modify_i, outcomes>>

\* Ok(())
loop_return ==
  /\ main_pc = "bench_after_loop"
  /\ main_pc' = "bench_ok"
  /\ UNCHANGED <<engineVars, gfVars, walkVars, loopVars, divVars, modeVars,
                 collector, main_mode, watched_count, modify_i>>

LoopNext ==
  \/ loop_recv
  \/ bench_time_up
  \/ loop_return

SpecLoop == LoopInit /\ [][LoopNext]_vars

\* ---------------------------------------------------------- run_watch_test
\* collect_files_recursive(&tmp_dir): the files now under the root, from the
\* file i on.
RECURSIVE tmp_files(_)
tmp_files(i) ==
  IF i > MaxFiles THEN <<>>
  ELSE (IF is_file(i) THEN <<i>> ELSE <<>>) \o tmp_files(i + 1)

\* get_filtered_files(&all_files, 10)
TestFilterRatio == 10

\* .take(5.min(test_files.len()))
TakeFiles == 5

\* files_to_modify
files_to_modify ==
  SubSeq(tmp_files(1), 1,
         IF TakeFiles < Len(tmp_files(1)) THEN TakeFiles ELSE Len(tmp_files(1)))

\* run_watch_test(dir, mode) has been called, in any of the four modes, and
\* has copied dir to the temporary directory: the root with any of the files.
TestInit ==
  /\ EngineInit
  /\ fs[Root] = "dir"
  /\ traced = TRUE
  /\ GfIdle
  /\ WalkIdle
  /\ LoopIdle
  /\ DivIdle
  /\ ModeIdle
  /\ main_pc = "test_setup"
  /\ collector = "none"
  /\ main_mode \in WatcherModes
  /\ watched_count = 0
  /\ modify_i = 0

\* The constructor call of the match arm of the mode, up to its
\* registration calls.
test_construct(h, ok) ==
  /\ main_pc = "test_setup"
  /\ \/ main_mode = "Manual" /\ new_with_files_begin(h, tmp_files(1), ok)
     \/ main_mode = "Native" /\ new_begin(h, Root, ok)
     \/ main_mode = "ManualFiltered"
          /\ new_with_files_begin(h, get_filtered_files(tmp_files(1), TestFilterRatio), ok)
     \/ main_mode = "NativeFiltered"
          /\ new_with_filter_begin(h, Root,
                                   get_filtered_files(tmp_files(1), TestFilterRatio), ok)

\* A registration call of the constructor.
test_watch(h, ok) ==
  /\ main_pc = "test_setup"
  /\ \/ new_with_files_watch(h, ok)
     \/ new_watch(h, ok)
     \/ new_with_filter_watch(h, ok)

\* The constructor returns Ok.
test_constructed(h) ==
  /\ main_pc = "test_setup"
  /\ \/ new_with_files_return(h)
     \/ new_return(h)
     \/ new_with_filter_return(h)

\* The constructor returned Err: the ? returns it from run_watch_test.
test_failed(h) ==
  /\ main_pc = "test_setup"
  /\ pc[h] = "failed"
  /\ main_pc' = "test_err"
  /\ UNCHANGED <<engineVars, gfVars, walkVars, loopVars, divVars, modeVars,
                 collector, main_mode, watched_count, modify_i>>

\* watcher.into_parts(), the value of the match arm.
test_into_parts(h) ==
  /\ main_pc = "test_setup"
  /\ into_parts(h)

\* The watch object is not kept: let (_, rx) = match mode { .. }.
test_spawn_dropping_watcher(h) ==
  /\ main_pc = "test_setup"
  /\ pc[h] = "split"
  /\ watcher[h]
  /\ drop_watcher(h)
  /\ IF files_to_modify = <<>>
       THEN /\ main_pc' = "test_cleanup"
            /\ hist' = [hist EXCEPT ![h] =
                          Record(h, Entry("drop_watcher", NoRecv, "none"))]
            /\ UNCHANGED collector
       ELSE /\ main_pc' = "test_modify"
            /\ collector' = "running"
            /\ hist' = [hist EXCEPT ![h] =
                          IF traced
                            THEN @ \o <<Entry("drop_watcher", NoRecv, "none"),
                                        Entry("collector_started", NoRecv, "none")>>
                            ELSE @]
  /\ modify_i' = 0
  /\ event_count' = 0
  /\ UNCHANGED <<fs, now, ops, variant, arg_dir, arg_files, pc, idx,
                 start_watch, attempts, filter_files, filter_files_clone,
                 files_watched, setup_time, chan, receiver, last, traced,
                 gfVars, walkVars, divVars, modeVars, main_mode,
                 watched_count, outcomes, polls>>

\* let (_watcher, rx) = match mode { .. }: both parts are locals of the
\* function. Then step 3: with no file to modify nothing is started; else the
\* collection thread is spawned, rx moved into it, and the main thread sleeps
\* 100 ms and starts writing.
test_spawn(h) ==
  /\ main_pc = "test_setup"
  /\ pc[h] = "split"
  /\ watcher[h]
  /\ IF files_to_modify = <<>>
       THEN /\ main_pc' = "test_cleanup"
            /\ UNCHANGED <<collector, hist>>
       ELSE /\ main_pc' = "test_modify"
            /\ collector' = "running"
            /\ hist' = [hist EXCEPT ![h] =
                          Record(h, Entry("collector_started", NoRecv, "none"))]
  /\ modify_i' = 0
  /\ event_count' = 0
  /\ UNCHANGED <<fs, now, ops, variant, arg_dir, arg_files, pc, idx,
                 start_watch, watcher, watches, attempts, filter_files,
                 filter_files_clone, files_watched, setup_time, chan, receiver,
                 last, traced, gfVars, walkVars, divVars, modeVars, main_mode,
                 watched_count, outcomes, polls>>

\* One turn of the collection thread: rx.recv_timeout(10 ms); an event is
\* pushed to events, an error is printed, Timeout and Disconnected are passed
\* over.
collector_recv(h) ==
  /\ collector = "running"
  /\ receiver[h]
  /\ IF chan[h] # <<>>
       THEN /\ last' = [last EXCEPT ![h] = Head(chan[h])]
            /\ chan' = [chan EXCEPT ![h] = Tail(@)]
            /\ hist' = [hist EXCEPT ![h] = Record(h, Entry("recv", Head(chan[h]), "none"))]
       ELSE /\ last' = [last EXCEPT ![h] = IF watcher[h] THEN Timeout ELSE Disconnected]
            /\ UNCHANGED <<chan, hist>>
  /\ event_count' = IF last'[h].tag = "Ok" THEN event_count + 1 ELSE event_count
  /\ UNCHANGED <<fs, now, ops, variant, arg_dir, arg_files, pc, idx,
                 start_watch, watcher, watches, attempts, filter_files,
                 filter_files_clone, files_watched, setup_time, receiver,
                 traced, gfVars, walkVars, divVars, modeVars, procVars,
                 outcomes, polls>>

\* The 3 seconds of the collection thread are over: event_tx.send(events)
\* .unwrap(), which panics when the main thread has left the block that owns
\* event_rx; the thread ends and rx is dropped.
collector_finish(h) ==
  /\ collector = "running"
  /\ receiver[h]
  /\ collector' = IF main_pc \in {"test_modify", "test_wait"} THEN "finished" ELSE "panicked"
  /\ drop_receiver(h)
  /\ hist' = [hist EXCEPT ![h] = Record(h, Entry("drop_receiver", NoRecv, "none"))]
  /\ UNCHANGED <<fs, now, ops, variant, arg_dir, arg_files, pc, idx,
                 start_watch, watcher, watches, attempts, filter_files,
                 filter_files_clone, files_watched, setup_time, last, traced,
                 gfVars, walkVars, loopVars, divVars, modeVars, main_pc,
                 main_mode, watched_count, modify_i>>

\* One turn of for (i, file_path) in files_to_modify.iter().enumerate(): the
\* file is read and written back with a line added, then a sleep of 10 ms.
test_modify ==
  /\ main_pc = "test_modify"
  /\ modify_i < Len(files_to_modify)
  /\ modify_i' = modify_i + 1
  /\ Detect(files_to_modify[modify_i + 1], OkEvent(<<files_to_modify[modify_i + 1]>>))
  /\ UNCHANGED <<fs, now, ops, variant, arg_dir, arg_files, pc, idx,
                 start_watch, watcher, watches, attempts, filter_files,
                 filter_files_clone, files_watched, setup_time, receiver, last,
                 traced, gfVars, walkVars, loopVars, divVars, modeVars, main_pc,
                 collector, main_mode, watched_count>>

\* The loop over files_to_modify is over.
test_modify_done ==
  /\ main_pc = "test_modify"
  /\ modify_i = Len(files_to_modify)
  /\ main_pc' = "test_wait"
  /\ UNCHANGED <<engineVars, gfVars, walkVars, loopVars, divVars, modeVars,
                 collector, main_mode, watched_count, modify_i>>

\* event_rx.recv_timeout(test_duration + 1 s): the events of the collection
\* thread once it has sent them, or nothing when the wait runs out first;
\* the block of step 3 ends and event_rx is dropped.
test_receive ==
  /\ main_pc = "test_wait"
  /\ collector \in {"running", "finished"}
  /\ main_pc' = "test_cleanup"
  /\ UNCHANGED <<engineVars, gfVars, walkVars, loopVars, divVars, modeVars,
                 collector, main_mode, watched_count, modify_i>>

\* fs::remove_dir_all(&tmp_dir) removes the file p, the first of the files
\* that are left.
test_remove(p) ==
  /\ main_pc = "test_cleanup"
  /\ tmp_files(1) # <<>>
  /\ p = Head(tmp_files(1))
  /\ FsRemove(p)

\* remove_dir_all is over, with the files all removed or with an error on the
\* way, and run_watch_test returns: _watcher is dropped.
test_return(h) ==
  /\ main_pc = "test_cleanup"
  /\ watcher[h]
  /\ drop_watcher(h)
  /\ hist' = [hist EXCEPT ![h] = Record(h, Entry("drop_watcher", NoRecv, "none"))]
  /\ main_pc' = IF \A p \in Files : ~exists(p) THEN "test_ok" ELSE "test_err"
  /\ fs' = IF \A p \in Files : ~exists(p) THEN [fs EXCEPT ![Root] = "missing"] ELSE fs
  /\ UNCHANGED <<now, ops, variant, arg_dir, arg_files, pc, idx,
                 start_watch, attempts, filter_files, filter_files_clone,
                 files_watched, setup_time, chan, receiver, last, traced,
                 gfVars, walkVars, loopVars, divVars, modeVars, collector,
                 main_mode, watched_count, modify_i>>

\* A run of run_watch_test and of its collection thread; the files are
\* changed by run_watch_test only.
TestNext ==
  \/ \E h \in {1}, ok \in BOOLEAN : test_construct(h, ok)
  \/ \E h \in {1}, ok \in BOOLEAN : test_watch(h, ok)
  \/ \E h \in {1} : test_constructed(h)
  \/ \E h \in {1} : test_failed(h)
  \/ \E h \in {1} : test_into_parts(h)
  \/ \E h \in {1} : test_spawn(h)
  \/ \E h \in {1} : collector_recv(h)
  \/ \E h \in {1} : collector_finish(h)
  \/ test_modify
  \/ test_modify_done
  \/ test_receive
  \/ \E p \in Files : test_remove(p)
  \/ \E h \in {1} : test_return(h)

SpecTest == TestInit /\ [][TestNext]_vars

\* =================================================================== claims
\* The lifecycle state of handle h, read off the constructor's position and
\* the watcher object.
LifeState(h) ==
  CASE pc[h] = "none" -> "Unregistered"
    [] pc[h] = "registering" -> "Registering"
    [] pc[h] = "failed" -> "Failed"
    [] pc[h] \in {"active", "split"} /\ watcher[h] -> "Active"
    [] OTHER -> "Dropped"

\* The filesystem mutations whose event the backend hands to the callback of h.
ChangeSeenBy(h, p) ==
  /\ Covers(h, p)
  /\ FsModify(p) \/ FsCreate(p) \/ FsRemove(p)

\* C1: in the filtered native watcher, every error notification the backend
\* hands to the callback is forwarded into the channel, whatever the Filter
\* Set holds: with the Receiver alive, the error is the newest element of the
\* channel after the callback has run.
C1_ErrorsForwarded ==
  [][\A h \in Handles :
       (variant[h] = "filtered" /\ receiver[h] /\ BackendReport(h, ErrNotification))
         => chan'[h] = Append(chan[h], ErrNotification)]_vars

\* What the filter is to do with the Ok event ev handed to the callback of h:
\* push it when one of its paths is in the Filter Set (the push lands on the
\* channel while the Receiver is alive), and leave the channel alone otherwise.
FilterExpected(h, ev) ==
  IF Range(ev.paths) \cap filter_files[h] # {}
    THEN IF receiver[h] THEN Append(chan[h], ev) ELSE chan[h]
    ELSE chan[h]

\* The step is what the filter is to do with ev: the channel becomes
\* FilterExpected, and when no path of ev is in the Filter Set nothing of the
\* handle moves.
FilterEffect(h, ev) ==
  /\ chan'[h] = FilterExpected(h, ev)
  /\ Range(ev.paths) \cap filter_files[h] = {} =>
       /\ chan'[h] = chan[h]
       /\ last'[h] = last[h]
       /\ filter_files'[h] = filter_files[h]
       /\ setup_time'[h] = setup_time[h]
       /\ receiver'[h] = receiver[h]
       /\ watcher'[h] = watcher[h]

\* C2: in the filtered native watcher an Ok event handed to the callback is
\* pushed into the channel if and only if one of its paths is in the Filter
\* Set; an event with no path in the set (or no path at all) leaves the
\* channel and every field of the handle as they were.
C2_ForwardIffInFilter ==
  [][\A h \in Handles : variant[h] = "filtered" =>
       /\ \A res \in Reports :
            (res.tag = "Ok" /\ BackendReport(h, res)) => FilterEffect(h, res)
       /\ \A p \in Files :
            ChangeSeenBy(h, p) => FilterEffect(h, OkEvent(<<p>>)) ]_vars

\* A filtered handle took an event with two paths, one of them in the Filter
\* Set, while another notification was dropped.
C2_Witness ==
  \E h \in Handles :
    /\ variant[h] = "filtered"
    /\ filter_files[h] = {2}
    /\ chan[h] = <<OkEvent(<<1, 2>>)>>
    /\ ops = 2

\* C3: a filtered recursive watcher whose Filter Set is {A} over the files
\* {A, B} (A = 1, B = 2): a modification of B leaves the channel as it was, a
\* modification of A adds exactly one notification, the event of that
\* modification, whose paths contain A.
C3_OnlyAIsReported ==
  [][\A h \in Handles :
       ( /\ variant[h] = "filtered"
         /\ LifeState(h) = "Active"
         /\ receiver[h]
         /\ filter_files[h] = {1}
         /\ is_file(1) /\ is_file(2) )
       => /\ FsModify(2) => chan'[h] = chan[h]
          /\ FsModify(1) =>
               /\ Len(chan'[h]) = Len(chan[h]) + 1
               /\ SubSeq(chan'[h], 1, Len(chan[h])) = chan[h]
               /\ chan'[h][Len(chan'[h])] = OkEvent(<<1>>)
               /\ 1 \in Range(chan'[h][Len(chan'[h])].paths) ]_vars

\* Both files exist, both mutations of the run are over, and the channel holds
\* the one notification about A.
C3_Witness ==
  \E h \in Handles :
    /\ variant[h] = "filtered"
    /\ LifeState(h) = "Active"
    /\ filter_files[h] = {1}
    /\ is_file(1) /\ is_file(2)
    /\ ops = 2
    /\ chan[h] = <<OkEvent(<<1>>)>>
    /\ last[h] = NoRecv

\* C4: the Filter Set built by new_with_filter is the set of the candidates
\* that are regular files when the constructor runs; files_filtered() is its
\* size, at most the length of the candidate list, and equal to it only when
\* the candidates are distinct regular files.
C4_FilterSetConstruction ==
  [][\A h \in Handles :
       (pc[h] = "none" /\ pc'[h] = "registering" /\ variant'[h] = "filtered")
       => LET cand == arg_files'[h]
              n == Len(cand)
          IN /\ filter_files'[h] = {p \in Range(cand) : fs[p] = "file"}
             /\ files_filtered(h)' = Cardinality({p \in Range(cand) : fs[p] = "file"})
             /\ files_filtered(h)' <= n
             /\ files_filtered(h)' = n
                  <=> /\ \A i \in 1..n : fs[cand[i]] = "file"
                      /\ \A i, j \in 1..n : cand[i] = cand[j] => i = j ]_vars

\* A filtered watcher under construction whose candidates were a regular file
\* and a directory: the set holds the file alone.
C4_Witness ==
  \E h \in Handles :
    /\ variant[h] = "filtered"
    /\ pc[h] = "registering"
    /\ arg_files[h] = <<1, Root>>
    /\ filter_files[h] = {1}
    /\ files_filtered(h) = 1

\* C5: for every list of M files and every ratio k >= 1, get_filtered_files
\* returns the elements at the indices 0, k, 2k, ... in their order, so
\* ceil(M / k) of them.
C5_EveryKth ==
  (gf_state = "returned" /\ gf_ratio >= 1) =>
    LET M == Len(gf_files)
        k == gf_ratio
    IN /\ Len(gf_result) = (M + k - 1) \div k
       /\ \A j \in 1..Len(gf_result) : gf_result[j] = gf_files[(j - 1) * k + 1]

\* Four files, every third: the first and the fourth.
C5_Witness ==
  /\ gf_state = "returned"
  /\ Len(gf_files) = 4
  /\ gf_ratio = 3
  /\ gf_result = <<gf_files[1], gf_files[4]>>
  /\ gf_files[1] # gf_files[4]

\* The registration calls a constructor has issued for the first n paths of
\* its list, all of them successful.
ManualCalls(h, n) ==
  [i \in 1..n |-> [path |-> arg_files[h][i], mode |-> "NonRecursive", ok |-> TRUE]]

\* C6: when a registration fails during new_with_files, the constructor
\* returns at that call: the failed call is the last one it made, the calls
\* before it were for the paths before it, in order, and succeeded, and no
\* handle comes out (neither the watcher object nor the Receiver survives, no
\* field of a handle is set).
C6_FirstErrorEndsConstruction ==
  \A h \in Handles : variant[h] = "manual" =>
    LET n == Len(attempts[h]) IN
      /\ n <= Len(arg_files[h])
      /\ \A i \in 1..n :
           /\ attempts[h][i].path = arg_files[h][i]
           /\ ~attempts[h][i].ok => (i = n /\ pc[h] = "failed")
      /\ pc[h] = "failed" =>
           /\ n > 0 => ~attempts[h][n].ok
           /\ ~watcher[h]
           /\ ~receiver[h]
           /\ files_watched[h] = 0
           /\ setup_time[h] = 0

\* The first of two registrations failed: one call was made, not two.
C6_Witness ==
  \E h \in Handles :
    /\ variant[h] = "manual"
    /\ pc[h] = "failed"
    /\ Len(arg_files[h]) = 2
    /\ Len(attempts[h]) = 1
    /\ exists(arg_files[h][2])

\* C7 as stated: after per-file registration has failed at the i-th path, the
\* watches registered for the paths before i are still installed.
C7_WatchesLeakOnError ==
  \A h \in Handles :
    (variant[h] = "manual" /\ pc[h] = "failed") =>
      \A i \in 1..Len(attempts[h]) :
        attempts[h][i].ok =>
          [path |-> attempts[h][i].path, mode |-> "NonRecursive"] \in watches[h]

\* C7 as amended: the constructor makes no unwatch call for the paths before
\* i, but the watcher object is a local of the constructor and is dropped as
\* the error is returned, which releases every watch registered on it: once
\* the constructor has failed, no watch of it is installed and no path is
\* covered.
C7_WatchesReleasedOnError ==
  \A h \in Handles :
    (variant[h] = "manual" /\ pc[h] = "failed") =>
      /\ ~watcher[h]
      /\ watches[h] = {}
      /\ \A p \in Paths : ~Covers(h, p)
      /\ \A i \in 1..Len(attempts[h]) : attempts[h][i].mode = "NonRecursive"

\* The second of two registrations failed after the first had succeeded.
C7_Witness ==
  \E h \in Handles :
    /\ variant[h] = "manual"
    /\ pc[h] = "failed"
    /\ Len(attempts[h]) = 2
    /\ attempts[h][1].ok
    /\ ~attempts[h][2].ok

\* C8: when new_with_files returns a handle, the registration calls it has
\* made are exactly one non-recursive call per element of the input, in input
\* order, all on its one watcher object, which holds those watches.
C8_OneWatchPerElementInOrder ==
  [][\A h \in Handles :
       (variant[h] = "manual" /\ pc[h] = "registering" /\ pc'[h] = "active")
       => /\ attempts[h] = ManualCalls(h, Len(arg_files[h]))
          /\ watches'[h] = {[path |-> arg_files[h][i], mode |-> "NonRecursive"] :
                              i \in 1..Len(arg_files[h])}
          /\ watcher'[h]
          /\ files_watched'[h] = Len(arg_files[h]) ]_vars

\* A per-file watcher over two different files has been returned.
C8_Witness ==
  \E h \in Handles :
    /\ variant[h] = "manual"
    /\ pc[h] = "active"
    /\ files_watched[h] = 2
    /\ watches[h] = {[path |-> 1, mode |-> "NonRecursive"],
                     [path |-> 2, mode |-> "NonRecursive"]}

\* C9: new and new_with_filter issue one registration, in recursive mode, on
\* the directory they were given, whatever the filter list holds; when it
\* fails no handle comes out, and a returned handle holds that one watch.
C9_OneRecursiveWatchOnRoot ==
  \A h \in Handles : variant[h] \in {"native", "filtered"} =>
    /\ Len(attempts[h]) <= 1
    /\ \A i \in 1..Len(attempts[h]) :
         /\ attempts[h][i].path = arg_dir[h]
         /\ attempts[h][i].mode = "Recursive"
         /\ ~attempts[h][i].ok => pc[h] = "failed"
    /\ pc[h] = "failed" =>
         /\ ~watcher[h] /\ ~receiver[h] /\ watches[h] = {}
         /\ \A i \in 1..Len(attempts[h]) : ~attempts[h][i].ok
    /\ pc[h] = "registering" => idx[h] = Len(attempts[h])
    /\ LifeState(h) = "Active" =>
         watches[h] = {[path |-> arg_dir[h], mode |-> "Recursive"]}

\* A filtered watcher with two files in its Filter Set holds the one
\* recursive watch on the root.
C9_Witness ==
  \E h \in Handles :
    /\ variant[h] = "filtered"
    /\ LifeState(h) = "Active"
    /\ Cardinality(filter_files[h]) = 2
    /\ watches[h] = {[path |-> Root, mode |-> "Recursive"]}

\* The watches a constructor of h is to have installed when it returns.
ExpectedWatches(h) ==
  IF variant[h] = "manual"
    THEN {[path |-> arg_files[h][i], mode |-> "NonRecursive"] :
            i \in 1..Len(arg_files[h])}
    ELSE {[path |-> arg_dir[h], mode |-> "Recursive"]}

\* C10: a handle moves along Unregistered -> Registering -> Active -> Dropped
\* (or from construction to Failed, with no handle): it becomes Active from
\* Registering only, with every registration made and both parts alive; it
\* becomes Dropped from Active only, by the release of the watcher object,
\* which removes its watches; nothing leaves Dropped or Failed, and nothing
\* changes setup_time or the file counts of an Active or Dropped handle.
C10_Lifecycle ==
  [][\A h \in Handles :
       LET s == LifeState(h)
           t == LifeState(h)'
       IN /\ \/ s = t
             \/ s = "Unregistered" /\ t \in {"Registering", "Failed"}
             \/ s = "Registering" /\ t \in {"Active", "Failed"}
             \/ s = "Active" /\ t = "Dropped"
          /\ (s = "Registering" /\ t = "Active") =>
               /\ watcher'[h] /\ receiver'[h]
               /\ watches'[h] = ExpectedWatches(h)
          /\ (s = "Active" /\ t = "Dropped") =>
               /\ ~watcher'[h]
               /\ watches'[h] = {}
          /\ s \in {"Active", "Dropped"} =>
               /\ setup_time'[h] = setup_time[h]
               /\ files_watched'[h] = files_watched[h]
               /\ files_filtered(h)' = files_filtered(h) ]_vars

\* A handle that was split and whose watcher object has been released while
\* its Receiver lives on.
C10_Witness ==
  \E h \in Handles :
    /\ LifeState(h) = "Dropped"
    /\ pc[h] = "split"
    /\ receiver[h]
    /\ setup_time[h] = 1

\* ------------------------------------------------------ reading the history
\* C11: the callback never blocks and never fails, in all three variants:
\* every run of the callback that calls tx.send has pushed ("ok") when the
\* Receiver was alive, whatever was queued, and has had its value discarded
\* when the Receiver had been dropped; the unfiltered callbacks always call
\* it; and a discarded push takes nothing down: as long as the watcher object
\* has not been dropped by its owner it is alive with its watches installed.
C11_CallbackNeverBlocksNorFails ==
  \A h \in Handles :
    /\ \A i \in At(h, "callback") :
         /\ hist[h][i].sent = "ok" => ~Before(h, "drop_receiver", i)
         /\ hist[h][i].sent = "discarded" => Before(h, "drop_receiver", i)
         /\ variant[h] # "filtered" => hist[h][i].sent \in {"ok", "discarded"}
    /\ (pc[h] \in {"active", "split"} /\ At(h, "drop_watcher") = {}) =>
         /\ watcher[h]
         /\ watches[h] # {}
    /\ receiver[h] =>
         Len(chan[h]) = Cardinality({i \in At(h, "callback") : hist[h][i].sent = "ok"})
                          - Cardinality(At(h, "recv"))

\* The Receiver of a filtered watcher was dropped, then the callback ran twice
\* on events that pass the filter: both pushes were discarded and the watcher
\* object is alive with its watch.
C11_Witness ==
  \E h \in Handles :
    /\ variant[h] = "filtered"
    /\ watcher[h] /\ ~receiver[h]
    /\ watches[h] # {}
    /\ \E i, j \in At(h, "callback") :
         /\ i < j
         /\ Before(h, "drop_receiver", i)
         /\ hist[h][i].sent = "discarded"
         /\ hist[h][j].sent = "discarded"

\* The notifications of the entries of a part of the history, in order.
ResOf(log) == [i \in 1..Len(log) |-> log[i].res]

\* What the backend has handed to the callback of h, in order.
Reported(h) == ResOf(SelectSeq(hist[h], LAMBDA e : e.op = "callback"))

\* What the callback of h has put on the channel, in order.
Pushed(h) == ResOf(SelectSeq(hist[h], LAMBDA e : e.op = "callback" /\ e.sent = "ok"))

\* What the callback of h has called tx.send on, in order.
Forwarded(h) == ResOf(SelectSeq(hist[h], LAMBDA e : e.op = "callback" /\ e.sent # "none"))

\* What the Receiver of h has returned, in order.
Received(h) == ResOf(SelectSeq(hist[h], LAMBDA e : e.op = "recv"))

\* s is the beginning of t.
IsPrefix(s, t) == Len(s) <= Len(t) /\ s = SubSeq(t, 1, Len(s))

Count(s, v) == Cardinality({i \in 1..Len(s) : s[i] = v})

\* The notifications a traced run can carry.
Notifications == ObsReports \cup {OkEvent(<<p>>) : p \in Files}

\* C13: every notification forwarded while the Receiver is alive is on the
\* channel unchanged and is returned once: each value has been received or is
\* queued exactly as many times as it was pushed, nothing is received or
\* queued that the backend did not hand to the callback, and a watcher whose
\* backend has reported nothing has nothing queued and has returned nothing.
C13_ExactlyOnceVerbatim ==
  \A h \in Handles :
    /\ \A v \in Notifications :
         /\ Count(Received(h), v) <= Count(Pushed(h), v)
         /\ Count(Pushed(h), v) <= Count(Reported(h), v)
         /\ receiver[h] =>
              Count(Received(h), v) + Count(chan[h], v) = Count(Pushed(h), v)
    /\ Range(Received(h)) \cup Range(chan[h]) \subseteq Range(Reported(h))
    /\ Range(Reported(h)) \subseteq Notifications
    /\ Reported(h) = <<>> =>
         /\ chan[h] = <<>>
         /\ Received(h) = <<>>
         /\ last[h].tag \in {"None", "Timeout", "Disconnected"}

\* The one notification pushed was received, and the next receive timed out:
\* it was not returned a second time.
C13_Witness ==
  \E h \in Handles :
    /\ Len(Pushed(h)) = 1
    /\ Received(h) = Pushed(h)
    /\ receiver[h] /\ watcher[h]
    /\ chan[h] = <<>>
    /\ last[h] = Timeout

\* C14: recv_timeout reports Disconnected only when the watcher object, and
\* the Sender inside its callback, is gone and everything that was pushed has
\* been returned; with the watcher object alive it never does, an empty queue
\* giving Timeout; and Timeout and Disconnected are outcomes of their own: what
\* is handed out as a notification, an error included, is a notification the
\* backend reported.
C14_DisconnectedOnlyAfterTeardown ==
  \A h \in Handles :
    /\ last[h] = Disconnected =>
         /\ ~watcher[h]
         /\ At(h, "drop_watcher") # {}
         /\ chan[h] = <<>>
         /\ Received(h) = Pushed(h)
    /\ (watcher[h] /\ pc[h] \in {"active", "split"}) =>
         last[h].tag \in {"None", "Timeout", "Ok", "Err"}
    /\ last[h].tag \in {"Ok", "Err"} =>
         /\ Received(h) # <<>>
         /\ last[h] = Received(h)[Len(Received(h))]
         /\ last[h] \in Range(Reported(h))
    /\ \A i \in 1..Len(Received(h)) : Received(h)[i].tag \in {"Ok", "Err"}

\* The watcher object was dropped with a notification queued: the consumer got
\* that notification after the drop, and Disconnected on the receive after.
C14_Witness ==
  \E h \in Handles :
    /\ last[h] = Disconnected
    /\ receiver[h]
    /\ \E i \in At(h, "recv") : Before(h, "drop_watcher", i)

C16_DroppedHandleDisturbsNoOther ==
  /\ (ops < MaxOps /\ Started) => ENABLED FsModify(1)
  /\ \A g \in Handles :
       /\ receiver[g] => Received(g) \o chan[g] = Pushed(g)
       /\ ~receiver[g] => chan[g] = <<>>
       /\ \A i \in At(g, "callback") : ~Before(g, "drop_watcher", i)
       /\ Len(Reported(g)) <= ops
       /\ (pc[g] \in {"active", "split"} /\ At(g, "drop_watcher") = {}) =>
            watcher[g] /\ watches[g] # {}
       /\ (pc[g] \in {"active", "split"} /\ At(g, "drop_receiver") = {}) =>
            receiver[g]

\* The first handle saw a write to the file, lost both its parts, and the file
\* was written again: that write reached the second handle, once, and the
\* first one not at all.
C16_Witness ==
  /\ ~watcher[1] /\ ~receiver[1]
  /\ \E i \in At(1, "callback"), j \in At(1, "unseen") :
       /\ hist[1][i].res = hist[1][j].res
       /\ Before(1, "drop_watcher", j)
       /\ Before(1, "drop_receiver", j)
  /\ watcher[2] /\ receiver[2]
  /\ chan[2] = <<OkEvent(<<1>>)>>
  /\ Received(2) = <<>>

\* The paths on which the watcher object of h holds a watch.
WatchedPaths(h) == {w.path : w \in watches[h]}

\* C17: for a per-file watcher that has been returned and holds its watcher
\* object, files_watched() is the number of files under watch: the number of
\* distinct paths holding a watch registration, whatever the input sequence
\* was, one with a repeated path included.
C17_FilesWatchedCountsWatchedPaths ==
  \A h \in Handles :
    (variant[h] = "manual" /\ LifeState(h) = "Active") =>
      files_watched[h] = Cardinality(WatchedPaths(h))

\* C18: the Filter Set is immutable after construction: once new_with_filter
\* has built it, no step changes the field, the set the callback consults is
\* that same set, and files_filtered() is its size; receiving, into_parts,
\* notifications and the creation or removal of files leave it alone.
C18_FilterSetImmutable ==
  [][\A h \in Handles :
       (variant[h] = "filtered" /\ pc[h] # "none")
       => /\ filter_files_clone[h] = filter_files[h]
          /\ filter_files'[h] = filter_files[h]
          /\ filter_files_clone'[h] = filter_files[h]
          /\ files_filtered(h)' = Cardinality(filter_files_clone[h]) ]_vars

\* A file of the Filter Set was removed after registration and its
\* notification consumed: the set of the live watcher still holds it.
C18_Witness ==
  \E h \in Handles :
    /\ variant[h] = "filtered"
    /\ LifeState(h) = "Active"
    /\ pc[h] = "split"
    /\ \E p \in filter_files[h] :
         /\ ~exists(p)
         /\ last[h] = OkEvent(<<p>>)
    /\ filter_files_clone[h] = filter_files[h]
    /\ files_filtered(h) = 2

\* The regular files of the tree.
RegularFiles(t) == {n \in Nodes : t.kind[n] = "file"}

\* No entry of s occurs twice.
NoDuplicates(s) == \A i, j \in 1..Len(s) : s[i] = s[j] => i = j

\* C19: on a tree of regular files and openable directories alone,
\* collect_files_recursive returns as many paths as there are regular files,
\* one for each of them at whatever depth, none twice, no directory.
C19_CollectsEveryRegularFile ==
  ( /\ walk_state = "returned"
    /\ \A n \in {Root} \cup Nodes : tree.kind[n] \in {"file", "dir"} )
  => /\ Len(collected) = Cardinality(RegularFiles(tree))
     /\ Range(collected) = RegularFiles(tree)
     /\ NoDuplicates(collected)
     /\ \A i \in 1..Len(collected) : ~path_is_dir(tree, collected[i])

\* A tree with a file under the root and a file in a subdirectory: both are
\* returned.
C19_Witness ==
  /\ walk_state = "returned"
  /\ \A n \in {Root} \cup Nodes : tree.kind[n] \in {"file", "dir"}
  /\ Len(collected) = 2
  /\ \E i \in 1..2 : tree.parent[collected[i]] = Root
  /\ \E i \in 1..2 : tree.parent[collected[i]] # Root

\* Every directory from the entry n up to the root can be opened.
RECURSIVE Reachable(_, _)
Reachable(t, n) ==
  IF n = Root THEN t.kind[Root] = "dir"
  ELSE /\ t.kind[t.parent[n]] = "dir"
       /\ Reachable(t, t.parent[n])

\* C20: a directory that cannot be opened is skipped with all that lies under
\* it, without abort or error: on every tree the call returns, and returns,
\* once each, the regular files that can be reached through directories that
\* open; nothing when the root itself does not open.
C20_UnopenableDirectoriesSkipped ==
  /\ walk_state \in {"input", "returned"}
  /\ walk_state = "returned" =>
       /\ Range(collected) = {n \in RegularFiles(tree) : Reachable(tree, n)}
       /\ NoDuplicates(collected)
       /\ tree.kind[Root] = "locked" => collected = <<>>

\* A file was collected, then a directory that does not open was met, with a
\* file under it: the first file is returned, the hidden one is not.
C20_Witness ==
  /\ walk_state = "returned"
  /\ Len(collected) = 1
  /\ \E d \in Nodes :
       /\ tree.kind[d] = "locked"
       /\ collected[1] < d
       /\ \E n \in RegularFiles(tree) : tree.parent[n] = d


\* The string s writes the name in capitals and small letters: it has the
\* length of the name and at each place the letter of the name or its capital.
IsCaseVariant(s, name) ==
  /\ Len(s) = Len(name)
  /\ \A i \in 1..Len(name) : s[i] \in {name[i], to_ascii_uppercase(name[i])}

\* C21: from_str always returns, and returns Some(Manual), Some(Native),
\* Some(ManualFiltered), Some(NativeFiltered) exactly for the strings that
\* write "manual", "native", "manual-filtered", "native-filtered" in any mix
\* of capitals and small letters, and None for every other string.
C21_FromStrCaseInsensitiveTotal ==
  mode_result.mode # "unset" =>
    /\ mode_result \in {Some("Manual"), Some("Native"), Some("ManualFiltered"),
                        Some("NativeFiltered"), None}
    /\ mode_result = Some("Manual") <=> IsCaseVariant(mode_s, NameManual)
    /\ mode_result = Some("Native") <=> IsCaseVariant(mode_s, NameNative)
    /\ mode_result = Some("ManualFiltered") <=> IsCaseVariant(mode_s, NameManualFiltered)
    /\ mode_result = Some("NativeFiltered") <=> IsCaseVariant(mode_s, NameNativeFiltered)

\* A name written in mixed case, neither all small nor all capital, parsed.
C21_Witness ==
  /\ mode_result = Some("NativeFiltered")
  /\ mode_s[1] = "N"
  /\ mode_s[2] = "a"
  /\ mode_s[Len(mode_s)] = "D"


\* C25: the average-time divisions never divide by zero, whatever the file
\* count of the usize range: neither the division of benchmark_watcher by
\* watched_count.max(1) as u32 nor that of new_with_files by files_count as
\* u32 (made when files_count > 0) has a zero divisor.
C25_AveragesNeverDivideByZero ==
  /\ div_result.bench # "panic"
  /\ div_result.manual # "panic"


\* C22: in benchmark_watcher the watch object obtained from into_parts is
\* alive for the whole event-wait loop: while the loop polls rx the handle is
\* Active, and the loop is not given end-of-stream, neither while it runs nor
\* as the reason it was left.
C22_WatchObjectAliveDuringWaitLoop ==
  /\ main_pc = "bench_loop" => LifeState(1) = "Active"
  /\ main_pc \in {"bench_loop", "bench_after_loop"} => last[1] # Disconnected


\* The number of events among the first n results of the wait loop.
EventsAmong(n) == Cardinality({i \in 1..n : outcomes[i].tag = "Ok"})

\* What a turn of the wait loop may do with the result res.
TurnOf(res) ==
  /\ event_count' = IF res.tag = "Ok" THEN event_count + 1 ELSE event_count
  /\ res.tag \in {"Ok", "Err", "Timeout"} => main_pc' = "bench_loop"
  /\ res.tag = "Disconnected" => main_pc' = "bench_after_loop"

\* C24: the wait loop of benchmark_watcher keeps consuming after an error:
\* a turn on an error or on a Timeout leaves event_count as it is and stays
\* in the loop, a turn on an event counts it and stays in the loop, the loop
\* is left only on Disconnected or when its time is up, event_count is the
\* number of events received, and the function then returns Ok, whatever the
\* sequence of results.
C24_WaitLoopSurvivesErrors ==
  /\ [](/\ event_count = EventsAmong(polls)
        /\ main_pc \in {"bench_loop", "bench_after_loop", "bench_ok"}
        /\ \A i \in 1..polls : outcomes[i].tag = "Disconnected" => i = polls
        /\ (polls > 0 /\ outcomes[polls].tag = "Disconnected") => main_pc # "bench_loop")
  /\ [][/\ polls' \in {polls, polls + 1}
        /\ polls' = polls + 1 => TurnOf(outcomes[polls + 1])
        /\ polls' = polls => event_count' = event_count
        /\ main_pc = "bench_after_loop" => main_pc' = "bench_ok"
        /\ main_pc = "bench_ok" => main_pc' = "bench_ok"]_vars

\* An error, a Timeout and an event were received in this order, then the
\* stream ended: one event was counted and the function returned Ok.
C24_Witness ==
  /\ main_pc = "bench_ok"
  /\ outcomes = <<ErrNotification, Timeout, OkEvent(<<1>>), Disconnected>>
  /\ polls = Len(outcomes)
  /\ event_count = 1


\* C23: in run_watch_test the watch object stays alive from the end of the
\* setup until after the events of the collection thread have been waited
\* for, and the Receiver belongs to the collection thread: the handle is
\* Active while the files are written, while the thread is waited for and
\* when the cleanup starts; the files are written only after the thread has
\* been started; the thread holds the Receiver as long as it runs, and nothing
\* is received from it before the thread was started; and every change made
\* to the files comes after the start of the thread and before the drop of
\* the watch object.
C23_WatcherOutlivesCollection ==
  /\ main_pc \in {"test_modify", "test_wait", "test_cleanup"} => LifeState(1) = "Active"
  /\ (main_pc = "test_setup" /\ pc[1] \in {"active", "split"}) => LifeState(1) = "Active"
  /\ main_pc \in {"test_modify", "test_wait"} => collector \in {"running", "finished"}
  /\ modify_i > 0 => At(1, "collector_started") # {}
  /\ collector = "running" => receiver[1]
  /\ collector \in {"finished", "panicked"} => ~receiver[1]
  /\ \A i \in At(1, "recv") \cup At(1, "drop_receiver") :
       Before(1, "collector_started", i)
  /\ \A i \in 1..Len(hist[1]) :
       (hist[1][i].op \in {"callback", "unseen"} /\ hist[1][i].res.tag = "Ok")
         => /\ Before(1, "collector_started", i)
            /\ ~Before(1, "drop_watcher", i)

\* In a run on the native watcher both files were written and the collection
\* thread received both events and sent them on; the main thread has them
\* and the handle is still Active.
C23_Witness ==
  /\ main_pc = "test_cleanup"
  /\ main_mode = "Native"
  /\ collector = "finished"
  /\ modify_i = 2
  /\ event_count = 2
  /\ LifeState(1) = "Active"

====
